---- MODULE Spec2Model ----
(***************************************************************************)
(* Wave bulletin parsing: parse_bull (src/app.py) from format detection to *)
(* its return, and hourly_series_from_day_hour (wavecore/timeindex.py).    *)
(* Further down: get_latest_run and the retrieval at the top of            *)
(* parse_bull, two interleaved invocations of parse_bull, the callers of   *)
(* load_station_metadata, and build_hourly_rows (waveweb/app.py).          *)
(*                                                                         *)
(* The DayHour timestamp block of parse_bull (src/app.py 590-610) is       *)
(* stored dedented and with a damaged last line; it is read here as the    *)
(* body of the row loop it was pasted into, which is the same algorithm as *)
(* timeindex.py 17-28.                                                     *)
(*                                                                         *)
(* Datetimes are seconds since 2024-01-01T00:00:00Z.  Numbers read from    *)
(* tokens are integers in hundredths (the token "1.50" is 150).  Heights   *)
(* in rows are feet as hundredths plus a rest in 1e-7 ft (see Feet).       *)
(* An optional value is <<>> (None) or <<v>>.                              *)
(***************************************************************************)
EXTENDS Integers, Sequences, FiniteSets, TLC

VARIABLES fn, cycle_dt_utc, cycle_is_utc, lines, day_hour_tuples, pc, idx,
          last_forecast_dt_utc, rows, results, error,
          now, server, requests_sent,
          station_id, probe, probes, latest,
          other,
          STATION_META, callers, downloads,
          args, cur, row_i, hourly_rows

\* the clock, the remote server and the count of the requests sent to it
net_vars == <<now, server, requests_sent>>
\* parse_bull's argument and the locals of its call of get_latest_run
fetch_locals == <<station_id, probe, probes, latest>>
\* load_station_metadata: the module-level cache, its callers, the downloads made
meta_vars == <<STATION_META, callers, downloads>>
\* build_hourly_rows: its arguments and locals
hourly_vars == <<args, cur, row_i, hourly_rows>>
\* what the row loops of parse_bull and hourly_series_from_day_hour leave alone
elsewhere == <<net_vars, fetch_locals, other, meta_vars, hourly_vars>>

vars == <<fn, cycle_dt_utc, cycle_is_utc, lines, day_hour_tuples, pc, idx,
          last_forecast_dt_utc, rows, results, error, elsewhere>>

(***************************************************************************)
(* Bounds of the model.                                                    *)
(***************************************************************************)
MaxLines == 3
MaxFields == 7
RolloverLen == 14

(***************************************************************************)
(* Program constants.                                                      *)
(***************************************************************************)
M_TO_FT == 328084
SwellSlots == 6
MinParts == 20
IdxBase == 6
DetectWindow == 10

None == <<>>
Some(v) == <<v>>

Min(a, b) == IF a < b THEN a ELSE b

(***************************************************************************)
(* The proleptic Gregorian calendar of datetime, from 2024 on.             *)
(***************************************************************************)
HOUR == 3600
DAY == 86400

IsLeap(y) == (y % 4 = 0) /\ ((y % 100 # 0) \/ (y % 400 = 0))

DaysInMonth(y, m) ==
    IF m = 2 THEN (IF IsLeap(y) THEN 29 ELSE 28)
    ELSE IF m \in {4, 6, 9, 11} THEN 30 ELSE 31

DaysInYear(y) == IF IsLeap(y) THEN 366 ELSE 365

RECURSIVE DaysBeforeYear(_)
DaysBeforeYear(y) == IF y <= 2024 THEN 0 ELSE DaysBeforeYear(y - 1) + DaysInYear(y - 1)

RECURSIVE DaysBeforeMonth(_, _)
DaysBeforeMonth(y, m) == IF m <= 1 THEN 0 ELSE DaysBeforeMonth(y, m - 1) + DaysInMonth(y, m - 1)

\* datetime(y, m, d, h, 0, 0)
MkDt(y, m, d, h) == (DaysBeforeYear(y) + DaysBeforeMonth(y, m) + (d - 1)) * DAY + h * HOUR

RECURSIVE YearFrom(_, _)
YearFrom(y, n) == IF n < DaysInYear(y) THEN y ELSE YearFrom(y + 1, n - DaysInYear(y))

RECURSIVE MonthFrom(_, _, _)
MonthFrom(y, m, n) == IF n < DaysInMonth(y, m) THEN m ELSE MonthFrom(y, m + 1, n - DaysInMonth(y, m))

YearOf(t) == YearFrom(2024, t \div DAY)
MonthOf(t) == MonthFrom(YearOf(t), 1, (t \div DAY) - DaysBeforeYear(YearOf(t)))
DayOf(t) == (t \div DAY) - DaysBeforeYear(YearOf(t)) - DaysBeforeMonth(YearOf(t), MonthOf(t)) + 1
HourOf(t) == (t % DAY) \div HOUR
SecOfHour(t) == t % HOUR

\* Mutant of ReplaceOk: the day is checked against 31, not against the month.
ReplaceOkAnyMonth(t, d, h) == d >= 1 /\ d <= 31 /\ h >= 0 /\ h <= 23

\* datetime.replace(day=d, hour=h) raises ValueError exactly when this fails.
ReplaceOk(t, d, h) == d >= 1 /\ d <= DaysInMonth(YearOf(t), MonthOf(t)) /\ h >= 0 /\ h <= 23

\* cycle_dt_utc.replace(day=d, hour=h): minute and second are kept.
Replace(t, d, h) == MkDt(YearOf(t), MonthOf(t), d, h) + SecOfHour(t)

\* cycle_dt_utc.replace(day=d, hour=h, minute=0, second=0, microsecond=0)
ReplaceOnHour(t, d, h) == MkDt(YearOf(t), MonthOf(t), d, h)

\* Mutant of RollForward: an if in place of the while, one day at most is added.
RollForwardOnce(dt, cycle) == IF dt < cycle THEN dt + DAY ELSE dt

\* while dt < cycle: dt += timedelta(days=1)
RECURSIVE RollForward(_, _)
RollForward(dt, cycle) == IF dt < cycle THEN RollForward(dt + DAY, cycle) ELSE dt

\* Mutants of PlusOneHour: nothing is added; a day is added.
PlusNoHour(last) == last
PlusOneDay(last) == last + DAY

\* last + timedelta(hours=1)
PlusOneHour(last) == last + HOUR

\* Mutant of AnchorOf: the anchor is not moved forward to the cycle.
AnchorNotRolled(cycle, d, h) == Replace(cycle, d, h)

\* The anchor of parse_bull's first accepted row.
AnchorOf(cycle, d, h) == RollForward(Replace(cycle, d, h), cycle)

\* The anchor of hourly_series_from_day_hour's first accepted tuple.
SeriesAnchorOf(cycle, d, h) == RollForward(ReplaceOnHour(cycle, d, h), cycle)

(***************************************************************************)
(* Tokens and lines.  A token is a numeric literal (v in hundredths, lit   *)
(* "int" for an integer literal such as 31, "float" for 1.50; star = TRUE  *)
(* when it carries a '*' flag, as in *0.11), a lone "*", or any other      *)
(* word; the literals nan and inf, which float() also reads, are not among *)
(* the tokens.  A line records what the parser tests: whether it starts   *)
(* with '|' once stripped, whether it contains "Hst" or "---", the phrase  *)
(* of the line in which "day &" is looked for and the leading characters   *)
(* of the line that are compared with "Hr" (both as sequences of           *)
(* characters), and its non-blank '|'-separated fields, each the sequence  *)
(* of its whitespace tokens.                                               *)
(***************************************************************************)
Num(v) == [k |-> "num", v |-> v, star |-> FALSE, lit |-> "float"]
IntTok(n) == [k |-> "num", v |-> n * 100, star |-> FALSE, lit |-> "int"]
Flagged(v) == [k |-> "num", v |-> v, star |-> TRUE, lit |-> "float"]
Star == [k |-> "star", v |-> 0, star |-> TRUE, lit |-> "none"]
Word == [k |-> "word", v |-> 0, star |-> FALSE, lit |-> "none"]

Line(bar, hst, marker, head, fields) ==
    [bar |-> bar, hst |-> hst, marker |-> marker, head |-> head, fields |-> fields]

\* str.lower() on the letters that occur in the modelled text
LowerChar(ch) ==
    CASE ch = "D" -> "d" [] ch = "A" -> "a" [] ch = "Y" -> "y"
      [] ch = "H" -> "h" [] ch = "R" -> "r" [] ch = "F" -> "f"
      [] OTHER -> ch

Lower(text) == [i \in 1..Len(text) |-> LowerChar(text[i])]

\* sub in text
Contains(text, sub) ==
    \E i \in 1..(Len(text) - Len(sub) + 1) : SubSeq(text, i, i + Len(sub) - 1) = sub

\* text.startswith(prefix)
StartsWith(text, prefix) ==
    Len(text) >= Len(prefix) /\ SubSeq(text, 1, Len(prefix)) = prefix

\* the leading blanks of str.strip()
RECURSIVE Strip(_)
Strip(text) == IF text # <<>> /\ Head(text) = " " THEN Strip(Tail(text)) ELSE text

\* "day &" in line.lower()
HasDayMarker(line) == Contains(Lower(line.marker), <<"d", "a", "y", " ", "&">>)

\* Mutant of StartsWithHr: the case of the letters is ignored.
StartsWithHrAnyCase(line) == StartsWith(Lower(Strip(line.head)), <<"h", "r">>)

\* line.strip().startswith("Hr")
StartsWithHr(line) == StartsWith(Strip(line.head), <<"H", "r">>)

\* tok.replace('*', '') == ''
CleansToEmpty(tok) == tok.k = "star"

\* float(tok.replace('*', '')) succeeds
FloatOk(tok) == tok.k = "num"

\* int(tok) succeeds: no flag is stripped and "31.0" is not an integer literal
IntOk(tok) == tok.k = "num" /\ tok.lit = "int" /\ ~tok.star

IntOf(tok) == tok.v \div 100

\* int(float(s)): truncation toward zero
TruncInt(v) == IF v >= 0 THEN v \div 100 ELSE -((-v) \div 100)

\* Mutants of NormDir: no 180 degree shift; no reduction modulo 360.
NormDirUnshifted(dir_raw) == dir_raw % 360
NormDirUnwrapped(dir_raw) == dir_raw + 180

\* dir_val = (dir_raw + 180) % 360
NormDir(dir_raw) == (dir_raw + 180) % 360

NoGroup == [hs |-> None, tp |-> None, dir |-> None]

\* cleaned_tokens of one swell field (src/app.py 562-570)
CleanedTokens(field) == SelectSeq(field, LAMBDA tok : ~CleansToEmpty(tok))

\* One DayHour swell field to (hs_val, tp_val, dir_val), heights in metres.
ParseSwellField(field) ==
    LET c == CleanedTokens(field)
    IN  IF Len(c) < 3 THEN NoGroup
        ELSE IF FloatOk(c[1]) /\ FloatOk(c[2]) /\ FloatOk(c[3])
             THEN [hs |-> Some(c[1].v), tp |-> Some(c[2].v),
                   dir |-> Some(NormDir(TruncInt(c[3].v)))]
             ELSE NoGroup

\* while len(swell_groups) < 6: append; if len(swell_groups) > 6: truncate
RECURSIVE PadGroups(_)
PadGroups(groups) ==
    IF Len(groups) < SwellSlots THEN PadGroups(Append(groups, NoGroup)) ELSE groups

\* Mutant of SixGroups: groups beyond the sixth are kept.
PaddedGroups(groups) == PadGroups(groups)

SixGroups(groups) ==
    IF Len(PadGroups(groups)) > SwellSlots
    THEN SubSeq(PadGroups(groups), 1, SwellSlots)
    ELSE PadGroups(groups)

\* swell_groups of a DayHour line: one per field from parts[2] on
SwellGroups(parts) ==
    SixGroups([g \in 1..(Len(parts) - 2) |-> ParseSwellField(parts[g + 2])])

\* combined_hs_m: the first token of parts[1]
CombinedHs(parts) ==
    IF Len(parts[2]) > 0 /\ FloatOk(parts[2][1]) /\ ~CleansToEmpty(parts[2][1])
    THEN Some(parts[2][1].v) ELSE None

\* Mutant of Feet: the value is kept in metres.
Metres(v) == [c |-> v, e |-> 0]

\* v * 3.28084 for v in hundredths of a metre, exactly: c hundredths of a foot and
\* e units of 1e-7 ft on top (0 <= e < 100000), the product split to stay in range
Feet(v) ==
    [c |-> (M_TO_FT \div 100000) * v + (((M_TO_FT % 100000) * v) \div 100000),
     e |-> ((M_TO_FT % 100000) * v) % 100000]

\* hs_m * M_TO_FT, None kept
ToFeet(opt) == IF opt = None THEN None ELSE Some(Feet(opt[1]))

\* row.extend per group (src/app.py 634-638)
GroupForRow(g) == IF g.hs = None THEN NoGroup ELSE [hs |-> ToFeet(g.hs), tp |-> g.tp, dir |-> g.dir]

DayHourRow(src, ts, parts) ==
    [src |-> src, ts |-> ts,
     sw |-> [g \in 1..Len(SwellGroups(parts)) |-> GroupForRow(SwellGroups(parts)[g])],
     comb |-> ToFeet(CombinedHs(parts))]

(***************************************************************************)
(* The HourOffset dialect (src/app.py 679-756).                            *)
(***************************************************************************)
RECURSIVE Flatten(_)
Flatten(fields) == IF fields = <<>> THEN <<>> ELSE Head(fields) \o Flatten(Tail(fields))

RECURSIVE Barred(_)
Barred(fields) == IF fields = <<>> THEN <<>> ELSE Head(fields) \o <<Word>> \o Barred(Tail(fields))

\* line.split(): the '|' of a delimited line are whitespace tokens of their own
WsTokens(line) == IF line.bar THEN <<Word>> \o Barred(line.fields) ELSE Flatten(line.fields)

\* Mutants of PlusHours: the hour offset is floored to whole hours; the offset is
\* subtracted.
PlusWholeHours(cycle, hr) == cycle + (hr \div 100) * HOUR
PlusHoursBack(cycle, hr) == cycle - hr * (HOUR \div 100)

\* utc_dt = cycle_dt_utc_old + timedelta(hours=hr_offset); hr_offset in hundredths
PlusHours(cycle, hr) == cycle + hr * (HOUR \div 100)

\* The inner while loop of one swell group: got holds the numbers collected,
\* pos is idx_base (one-based).  Stars and unparsable tokens are passed over.
RECURSIVE Collect(_, _, _)
Collect(parts, pos, got) ==
    IF Len(got) < 3 /\ pos <= Len(parts)
    THEN IF ~CleansToEmpty(parts[pos]) /\ FloatOk(parts[pos])
         THEN Collect(parts, pos + 1, Append(got, parts[pos].v))
         ELSE Collect(parts, pos + 1, got)
    ELSE [got |-> got, pos |-> pos]

\* Mutant of GroupOf: the values collected so far are kept when fewer than three.
GroupOfPartial(got) ==
    [hs |-> IF Len(got) >= 1 THEN Some(Feet(got[1])) ELSE None,
     tp |-> IF Len(got) >= 2 THEN Some(got[2]) ELSE None,
     dir |-> IF Len(got) >= 3 THEN Some(NormDir(TruncInt(got[3]))) ELSE None]

\* Mutant of GroupOf: the direction is stored as read, without the half-turn.
GroupOfRawDirection(got) ==
    IF Len(got) < 3 THEN NoGroup
    ELSE [hs |-> Some(Feet(got[1])), tp |-> Some(got[2]),
          dir |-> Some(TruncInt(got[3]) % 360)]

\* if tokens_collected < 3: None, None, None else hs (in feet), tp, dir
GroupOf(got) ==
    IF Len(got) < 3 THEN NoGroup
    ELSE [hs |-> Some(Feet(got[1])), tp |-> Some(got[2]),
          dir |-> Some(NormDir(TruncInt(got[3])))]

\* for _swell in range(6): the groups appended to the row, idx_base threaded through
RECURSIVE OffsetGroups(_, _, _)
OffsetGroups(parts, pos, n) ==
    IF n = 0 THEN <<>>
    ELSE <<GroupOf(Collect(parts, pos, <<>>).got)>>
         \o OffsetGroups(parts, Collect(parts, pos, <<>>).pos, n - 1)

\* for tok in reversed(parts): the last token that parses as a number, in feet
RECURSIVE LastNumber(_, _)
LastNumber(parts, pos) ==
    IF pos = 0 THEN None
    ELSE IF ~CleansToEmpty(parts[pos]) /\ FloatOk(parts[pos])
         THEN Some(Feet(parts[pos].v))
         ELSE LastNumber(parts, pos - 1)

HourOffsetRow(src, cycle, parts) ==
    [src |-> src, ts |-> PlusHours(cycle, parts[1].v),
     sw |-> OffsetGroups(parts, IdxBase + 1, SwellSlots),
     comb |-> LastNumber(parts, Len(parts))]

(***************************************************************************)
(* The rounding pass (src/app.py 758-780).                                 *)
(***************************************************************************)
\* Mutant of RoundTo: the value is cut and one unit is added.
RoundPastTo(x, q) == ((x \div q) + 1) * q

\* round(x, n) for x in units of q/10^k: to the nearest multiple of q, ties to even
RoundTo(x, q) ==
    LET f == x \div q
        r == x - f * q
    IN  IF 2 * r < q THEN f * q
        ELSE IF 2 * r > q THEN (f + 1) * q
        ELSE IF f % 2 = 0 THEN f * q ELSE (f + 1) * q

RoundOpt(opt, q) == IF opt = None THEN None ELSE Some(RoundTo(opt[1], q))

\* round(x, 2) of a height in feet
RoundFeet(h) ==
    [c |-> IF 2 * h.e < 100000 THEN h.c
           ELSE IF 2 * h.e > 100000 THEN h.c + 1
           ELSE IF h.c % 2 = 0 THEN h.c ELSE h.c + 1,
     e |-> 0]

RoundFeetOpt(opt) == IF opt = None THEN None ELSE Some(RoundFeet(opt[1]))

\* Hs to 2 decimals, Tp to 1 decimal (of hundredths), Dir to int
RoundGroup(g) == [hs |-> RoundFeetOpt(g.hs), tp |-> RoundOpt(g.tp, 10), dir |-> RoundOpt(g.dir, 1)]

RoundRow(r) ==
    [r EXCEPT !.sw = [g \in 1..Len(r.sw) |-> IF g <= SwellSlots THEN RoundGroup(r.sw[g]) ELSE r.sw[g]],
              !.comb = RoundFeetOpt(r.comb)]

(***************************************************************************)
(* parse_bull from format detection on (src/app.py 489-787).               *)
(***************************************************************************)
\* Mutant of UsesDayHourFormat: every line of the document is searched.
UsesDayHourFormatAnywhere(ls) == \E k \in 1..Len(ls) : HasDayMarker(ls[k])

\* uses_day_hour_format = any("day &" in line.lower() for line in lines[:10])
UsesDayHourFormat(ls) == \E k \in 1..Min(DetectWindow, Len(ls)) : HasDayMarker(ls[k])

HasHeader(ls) == \E k \in 1..Len(ls) : StartsWithHr(ls[k])

\* The first line that starts with "Hr"
HeaderIdx(ls) == CHOOSE k \in 1..Len(ls) : StartsWithHr(ls[k]) /\ \A j \in 1..(k - 1) : ~StartsWithHr(ls[j])

\* A DayHour line that reaches the day/hour conversion (src/app.py 525-543)
IsDataLine(line) ==
    /\ line.bar
    /\ ~line.hst
    /\ Len(line.fields) > 0
    /\ Len(line.fields[1]) >= 2
    /\ IntOk(line.fields[1][1])
    /\ IntOk(line.fields[1][2])

DayVal(line) == IntOf(line.fields[1][1])
HourVal(line) == IntOf(line.fields[1][2])

\* Mutant of Detect: without a header line the older dialect is read from the top.
DetectFromTop ==
    /\ fn = "parse_bull"
    /\ pc = "detect"
    /\ IF UsesDayHourFormat(lines)
       THEN pc' = "dayhour" /\ idx' = 1
       ELSE IF HasHeader(lines)
            THEN pc' = "houroffset" /\ idx' = HeaderIdx(lines) + 1
            ELSE pc' = "houroffset" /\ idx' = 1
    /\ UNCHANGED <<elsewhere, fn, cycle_dt_utc, cycle_is_utc, lines, day_hour_tuples,
                   last_forecast_dt_utc, rows, results, error>>

Detect ==
    /\ fn = "parse_bull"
    /\ pc = "detect"
    /\ IF UsesDayHourFormat(lines)
       THEN pc' = "dayhour" /\ idx' = 1 /\ error' = error
       ELSE IF HasHeader(lines)
            THEN pc' = "houroffset" /\ idx' = HeaderIdx(lines) + 1 /\ error' = error
            ELSE pc' = "done" /\ idx' = idx /\ error' = "Data section not found in .bull file."
    /\ UNCHANGED <<elsewhere, fn, cycle_dt_utc, cycle_is_utc, lines, day_hour_tuples,
                   last_forecast_dt_utc, rows, results>>

\* continue before the day and hour are read
DayHourSkipLine ==
    /\ pc = "dayhour"
    /\ idx <= Len(lines)
    /\ ~IsDataLine(lines[idx])
    /\ idx' = idx + 1
    /\ UNCHANGED <<elsewhere, fn, cycle_dt_utc, cycle_is_utc, lines, day_hour_tuples, pc,
                   last_forecast_dt_utc, rows, results, error>>

\* parts[1] of a line with a single field: IndexError leaves parse_bull
DayHourIndexError ==
    /\ pc = "dayhour"
    /\ idx <= Len(lines)
    /\ IsDataLine(lines[idx])
    /\ Len(lines[idx].fields) < 2
    /\ pc' = "raised"
    /\ UNCHANGED <<elsewhere, fn, cycle_dt_utc, cycle_is_utc, lines, day_hour_tuples, idx,
                   last_forecast_dt_utc, rows, results, error>>

\* first row, replace() raises ValueError: continue
DayHourInvalidAnchor ==
    /\ pc = "dayhour"
    /\ idx <= Len(lines)
    /\ IsDataLine(lines[idx])
    /\ Len(lines[idx].fields) >= 2
    /\ last_forecast_dt_utc = None
    /\ ~ReplaceOk(cycle_dt_utc, DayVal(lines[idx]), HourVal(lines[idx]))
    /\ idx' = idx + 1
    /\ UNCHANGED <<elsewhere, fn, cycle_dt_utc, cycle_is_utc, lines, day_hour_tuples, pc,
                   last_forecast_dt_utc, rows, results, error>>

\* first row: the anchor
DayHourAnchorRow ==
    /\ pc = "dayhour"
    /\ idx <= Len(lines)
    /\ IsDataLine(lines[idx])
    /\ Len(lines[idx].fields) >= 2
    /\ last_forecast_dt_utc = None
    /\ ReplaceOk(cycle_dt_utc, DayVal(lines[idx]), HourVal(lines[idx]))
    /\ LET dt == AnchorOf(cycle_dt_utc, DayVal(lines[idx]), HourVal(lines[idx]))
       IN  /\ rows' = Append(rows, DayHourRow(idx, dt, lines[idx].fields))
           /\ last_forecast_dt_utc' = Some(dt)
    /\ idx' = idx + 1
    /\ UNCHANGED <<elsewhere, fn, cycle_dt_utc, cycle_is_utc, lines, day_hour_tuples, pc,
                   results, error>>

\* Mutant of DayHourNextRow: the day and hour replace those of the cycle date, the
\* end-of-month jump the anchoring was written to remove.
DayHourNextRowReplaced ==
    /\ pc = "dayhour"
    /\ idx <= Len(lines)
    /\ IsDataLine(lines[idx])
    /\ Len(lines[idx].fields) >= 2
    /\ last_forecast_dt_utc # None
    /\ LET dt == IF ReplaceOk(cycle_dt_utc, DayVal(lines[idx]), HourVal(lines[idx]))
                 THEN Replace(cycle_dt_utc, DayVal(lines[idx]), HourVal(lines[idx]))
                 ELSE PlusOneHour(last_forecast_dt_utc[1])
       IN  /\ rows' = Append(rows, DayHourRow(idx, dt, lines[idx].fields))
           /\ last_forecast_dt_utc' = Some(dt)
    /\ idx' = idx + 1
    /\ UNCHANGED <<elsewhere, fn, cycle_dt_utc, cycle_is_utc, lines, day_hour_tuples, pc,
                   results, error>>

\* later rows: the previous timestamp plus one hour
DayHourNextRow ==
    /\ pc = "dayhour"
    /\ idx <= Len(lines)
    /\ IsDataLine(lines[idx])
    /\ Len(lines[idx].fields) >= 2
    /\ last_forecast_dt_utc # None
    /\ LET dt == PlusOneHour(last_forecast_dt_utc[1])
       IN  /\ rows' = Append(rows, DayHourRow(idx, dt, lines[idx].fields))
           /\ last_forecast_dt_utc' = Some(dt)
    /\ idx' = idx + 1
    /\ UNCHANGED <<elsewhere, fn, cycle_dt_utc, cycle_is_utc, lines, day_hour_tuples, pc,
                   results, error>>

\* Mutant of HourOffsetAccepts: the number of tokens is not tested.
HourOffsetAcceptsAnyLength(line) ==
    /\ Len(WsTokens(line)) >= 1
    /\ FloatOk(WsTokens(line)[1])
    /\ ~WsTokens(line)[1].star

\* parts = line.split(); fewer than 20 tokens or parts[0] not a number: continue
HourOffsetAccepts(line) ==
    /\ Len(WsTokens(line)) >= MinParts
    /\ FloatOk(WsTokens(line)[1])
    /\ ~WsTokens(line)[1].star

\* Mutant of HourOffsetSkipLine: break in place of continue.
HourOffsetSkipBreaks ==
    /\ pc = "houroffset"
    /\ idx <= Len(lines)
    /\ ~HourOffsetAccepts(lines[idx])
    /\ idx' = Len(lines) + 1
    /\ UNCHANGED <<elsewhere, fn, cycle_dt_utc, cycle_is_utc, lines, day_hour_tuples, pc,
                   last_forecast_dt_utc, rows, results, error>>

HourOffsetSkipLine ==
    /\ pc = "houroffset"
    /\ idx <= Len(lines)
    /\ ~HourOffsetAccepts(lines[idx])
    /\ idx' = idx + 1
    /\ UNCHANGED <<elsewhere, fn, cycle_dt_utc, cycle_is_utc, lines, day_hour_tuples, pc,
                   last_forecast_dt_utc, rows, results, error>>

HourOffsetLine ==
    /\ pc = "houroffset"
    /\ idx <= Len(lines)
    /\ HourOffsetAccepts(lines[idx])
    /\ rows' = Append(rows, HourOffsetRow(idx, cycle_dt_utc, WsTokens(lines[idx])))
    /\ idx' = idx + 1
    /\ UNCHANGED <<elsewhere, fn, cycle_dt_utc, cycle_is_utc, lines, day_hour_tuples, pc,
                   last_forecast_dt_utc, results, error>>

\* the row loop of either dialect ends; the rounding pass runs over rows
RoundRows ==
    /\ pc \in {"dayhour", "houroffset"}
    /\ idx > Len(lines)
    /\ rows' = [k \in 1..Len(rows) |-> RoundRow(rows[k])]
    /\ pc' = "return"
    /\ UNCHANGED <<elsewhere, fn, cycle_dt_utc, cycle_is_utc, lines, day_hour_tuples, idx,
                   last_forecast_dt_utc, results, error>>

\* Mutant of Return: an empty row list is returned as a success.
ReturnEmptySuccess ==
    /\ pc = "return"
    /\ pc' = "done"
    /\ UNCHANGED <<elsewhere, fn, cycle_dt_utc, cycle_is_utc, lines, day_hour_tuples, idx,
                   last_forecast_dt_utc, rows, results, error>>

\* if not rows: error return, else the rows
Return ==
    /\ pc = "return"
    /\ error' = IF rows = <<>> THEN "No data rows parsed from .bull file." ELSE error
    /\ pc' = "done"
    /\ UNCHANGED <<elsewhere, fn, cycle_dt_utc, cycle_is_utc, lines, day_hour_tuples, idx,
                   last_forecast_dt_utc, rows, results>>

\* The rows element of the returned tuple: None beside an error message
ReturnedRows == IF error # "" THEN None ELSE Some(rows)

(***************************************************************************)
(* hourly_series_from_day_hour (wavecore/timeindex.py 7-29).               *)
(***************************************************************************)
SeriesNotUtc ==
    /\ fn = "hourly_series"
    /\ pc = "detect"
    /\ ~cycle_is_utc
    /\ pc' = "raised"
    /\ UNCHANGED <<elsewhere, fn, cycle_dt_utc, cycle_is_utc, lines, day_hour_tuples, idx,
                   last_forecast_dt_utc, rows, results, error>>

SeriesStart ==
    /\ fn = "hourly_series"
    /\ pc = "detect"
    /\ cycle_is_utc
    /\ pc' = "series"
    /\ idx' = 1
    /\ UNCHANGED <<elsewhere, fn, cycle_dt_utc, cycle_is_utc, lines, day_hour_tuples,
                   last_forecast_dt_utc, rows, results, error>>

SeriesInvalidAnchor ==
    /\ pc = "series"
    /\ idx <= Len(day_hour_tuples)
    /\ last_forecast_dt_utc = None
    /\ ~ReplaceOk(cycle_dt_utc, day_hour_tuples[idx][1], day_hour_tuples[idx][2])
    /\ idx' = idx + 1
    /\ UNCHANGED <<elsewhere, fn, cycle_dt_utc, cycle_is_utc, lines, day_hour_tuples, pc,
                   last_forecast_dt_utc, rows, results, error>>

SeriesAnchor ==
    /\ pc = "series"
    /\ idx <= Len(day_hour_tuples)
    /\ last_forecast_dt_utc = None
    /\ ReplaceOk(cycle_dt_utc, day_hour_tuples[idx][1], day_hour_tuples[idx][2])
    /\ LET dt == SeriesAnchorOf(cycle_dt_utc, day_hour_tuples[idx][1], day_hour_tuples[idx][2])
       IN  /\ results' = Append(results, [src |-> idx, ts |-> dt])
           /\ last_forecast_dt_utc' = Some(dt)
    /\ idx' = idx + 1
    /\ UNCHANGED <<elsewhere, fn, cycle_dt_utc, cycle_is_utc, lines, day_hour_tuples, pc,
                   rows, error>>

\* Mutant of SeriesNext: a later tuple that datetime.replace would reject is skipped.
SeriesNextChecked ==
    /\ pc = "series"
    /\ idx <= Len(day_hour_tuples)
    /\ last_forecast_dt_utc # None
    /\ IF ReplaceOk(cycle_dt_utc, day_hour_tuples[idx][1], day_hour_tuples[idx][2])
       THEN /\ results' = Append(results, [src |-> idx, ts |-> PlusOneHour(last_forecast_dt_utc[1])])
            /\ last_forecast_dt_utc' = Some(PlusOneHour(last_forecast_dt_utc[1]))
       ELSE UNCHANGED <<results, last_forecast_dt_utc>>
    /\ idx' = idx + 1
    /\ UNCHANGED <<elsewhere, fn, cycle_dt_utc, cycle_is_utc, lines, day_hour_tuples, pc,
                   rows, error>>

SeriesNext ==
    /\ pc = "series"
    /\ idx <= Len(day_hour_tuples)
    /\ last_forecast_dt_utc # None
    /\ LET dt == PlusOneHour(last_forecast_dt_utc[1])
       IN  /\ results' = Append(results, [src |-> idx, ts |-> dt])
           /\ last_forecast_dt_utc' = Some(dt)
    /\ idx' = idx + 1
    /\ UNCHANGED <<elsewhere, fn, cycle_dt_utc, cycle_is_utc, lines, day_hour_tuples, pc,
                   rows, error>>

SeriesReturn ==
    /\ pc = "series"
    /\ idx > Len(day_hour_tuples)
    /\ pc' = "done"
    /\ UNCHANGED <<elsewhere, fn, cycle_dt_utc, cycle_is_utc, lines, day_hour_tuples, idx,
                   last_forecast_dt_utc, rows, results, error>>

(***************************************************************************)
(* Inputs.  Cycles are model-run times at month ends, in a leap February,  *)
(* at a year end and in mid-month; parse_bull reads its cycle with         *)
(* "%Y%m%d %H", so on the hour, while hourly_series_from_day_hour takes    *)
(* any UTC datetime.                                                       *)
(***************************************************************************)
Cycles ==
    {MkDt(2025, 8, 31, 12), MkDt(2024, 2, 29, 6), MkDt(2025, 9, 30, 0),
     MkDt(2025, 12, 31, 18), MkDt(2025, 8, 7, 12)}

SeriesCycles == Cycles \cup {MkDt(2025, 8, 31, 12) + 1800}

\* (day, hour) pairs of rows: a month end, a gap, a step back, days before and
\* after the cycle's, and two that datetime.replace rejects in every month
DayHours == {<<31, 12>>, <<31, 23>>, <<1, 0>>, <<30, 0>>, <<1, 12>>}
BadDayHours == {<<0, 0>>, <<1, 24>>}

SeqsUpTo(S, n) == UNION {[1..k -> S] : k \in 0..n}

ValidField == <<Num(150), Num(1230), IntTok(200)>>
HstField == <<Num(210), IntTok(3)>>

\* "| 31 12 |  2.10  3 |  1.50 12.3 200 | ... |"
RowLine(d, h, hst, swells) ==
    Line(TRUE, FALSE, <<>>, <<"|">>, <<<<IntTok(d), IntTok(h)>>, hst>> \o swells)

\* "| day &  |  Hst  n x |  ... |"
MarkerLineOf(phrase) == Line(TRUE, TRUE, phrase, <<"|">>, <<<<Word, Word>>, <<Word, Word, Word>>>>)
MarkerLine == MarkerLineOf(<<"|", " ", "d", "a", "y", " ", "&">>)
\* "|  hour  |  (m)  - - |  ... |"
UnitLine == Line(TRUE, FALSE, <<>>, <<"|">>, <<<<Word>>, <<Word, Word, Word>>>>)
\* "| 31.0 12 |  2.10  3 |"
BadIntLine == Line(TRUE, FALSE, <<>>, <<"|">>, <<<<Num(3100), IntTok(12)>>, HstField>>)
\* "| 31 12 |"
NoHstLine == Line(TRUE, FALSE, <<>>, <<"|">>, <<<<IntTok(31), IntTok(12)>>>>)
\* "|"
EmptyBarLine == Line(TRUE, FALSE, <<>>, <<"|">>, <<>>)
\* " Location : 51201 (21.67N 158.12W)"
TextLine == Line(FALSE, FALSE, <<>>, <<" ", "L", "o", "c">>, <<<<Word, Word, Word>>>>)
\* "Hr  ..." header of the older dialect
HeaderLineOf(head) == Line(FALSE, FALSE, <<>>, head, <<<<Word, Word, Word>>>>)
HrLine == HeaderLineOf(<<"H", "r">>)

Words(n) == [k \in 1..n |-> Word]

\* An older-dialect data line: hour offset, five columns, the swell tokens, a tail
OffsetLine(hr, swells, tail) ==
    Line(FALSE, FALSE, <<>>, <<"0">>, <<<<hr>> \o Words(5) \o Flatten(swells) \o tail>>)

TimeLines ==
    {RowLine(dh[1], dh[2], HstField, <<ValidField>>) : dh \in DayHours}
    \cup {BadIntLine, NoHstLine}

\* Row k of a bulletin that starts at (d, h), steps one hour and whose month has len days
HourlyRow(d, h, len, k) ==
    RowLine((((d - 1) + ((h + k - 1) \div 24)) % len) + 1, (h + k - 1) % 24,
            HstField, <<ValidField>>)

HourlyDoc(d, h, len, n) == <<MarkerLine, UnitLine>> \o [k \in 1..n |-> HourlyRow(d, h, len, k)]

HourlyDocs ==
    {HourlyDoc(sh[1], sh[2], len, n) :
        sh \in {<<31, 12>>, <<28, 18>>, <<30, 0>>, <<31, 18>>},
        len \in 28..31, n \in 1..RolloverLen}

OffsetTimeLines ==
    {OffsetLine(hr, [g \in 1..6 |-> ValidField], <<Num(210)>>) :
        hr \in {IntTok(0), IntTok(1), Num(150), IntTok(-1), Flagged(300), Word}}
    \cup {TextLine, OffsetLine(IntTok(2), <<ValidField>>, <<>>)}

\* A full older-dialect data line with hour offset hr
FullOffsetLine(hr) == OffsetLine(hr, [g \in 1..6 |-> ValidField], <<Num(210)>>)

\* Header lines as they may be spelled: "Hr", "Hr.", "HR", "hr", " Hr", "Hrs", "fhr"
HeaderHeads ==
    {<<"H", "r">>, <<"H", "r", ".">>, <<"H", "R">>, <<"h", "r">>, <<" ", "H", "r">>,
     <<"H", "r", "s">>, <<"f", "h", "r">>}

HeaderDocs ==
    {<<TextLine, HeaderLineOf(h), FullOffsetLine(IntTok(0)), FullOffsetLine(IntTok(1))>> :
        h \in HeaderHeads}
    \cup {<<HeaderLineOf(h), FullOffsetLine(IntTok(0)), HrLine, FullOffsetLine(IntTok(1))>> :
            h \in HeaderHeads}

\* Phrases in the place of the marker: "| day &", "| Day &", "DAY & hour", "day&",
\* "day and"
MarkerPhrases ==
    {<<"|", " ", "d", "a", "y", " ", "&">>, <<"|", " ", "D", "a", "y", " ", "&">>,
     <<"D", "A", "Y", " ", "&", " ", "h", "o", "u", "r">>, <<"d", "a", "y", "&">>,
     <<"d", "a", "y", " ", "a", "n", "d">>}

MarkerDocs ==
    {<<MarkerLineOf(ph), HrLine, FullOffsetLine(IntTok(0)),
       RowLine(31, 12, HstField, <<ValidField>>)>> : ph \in MarkerPhrases}

\* Bulletins whose marker stands on the last line the detector reads or on the next
Padding(n) == [k \in 1..n |-> TextLine]

LateMarkerDocs ==
    {Padding(n) \o <<MarkerLine, RowLine(31, 12, HstField, <<ValidField>>)>> :
        n \in {DetectWindow - 1, DetectWindow}}
    \cup {<<HrLine>> \o Padding(n - 1)
          \o <<MarkerLine, RowLine(31, 12, HstField, <<ValidField>>), FullOffsetLine(IntTok(0))>> :
            n \in {DetectWindow - 1, DetectWindow}}

\* Older-dialect bulletins with a line that is dropped between two data lines
DroppedLineDocs ==
    {<<HrLine, FullOffsetLine(IntTok(0)), bad, FullOffsetLine(IntTok(1))>> :
        bad \in {FullOffsetLine(Word), FullOffsetLine(Flagged(300)), FullOffsetLine(Star),
                 TextLine, EmptyBarLine, OffsetLine(IntTok(2), <<ValidField>>, <<>>)}}

TimeDocs ==
    {<<MarkerLine>> \o b : b \in SeqsUpTo(TimeLines, MaxLines)}
    \cup HourlyDocs
    \cup HeaderDocs
    \cup DroppedLineDocs
    \cup MarkerDocs
    \cup LateMarkerDocs
    \cup {<<HrLine>> \o b : b \in SeqsUpTo(OffsetTimeLines, MaxLines - 1)}
    \cup {<<TextLine>>,
          <<TextLine, MarkerLine, EmptyBarLine, RowLine(0, 0, HstField, <<ValidField>>),
            TextLine, RowLine(31, 12, HstField, <<ValidField>>), UnitLine,
            RowLine(0, 0, HstField, <<ValidField>>)>>,
          <<MarkerLine, RowLine(1, 24, HstField, <<ValidField>>), RowLine(1, 0, <<Star>>, <<>>),
            RowLine(1, 24, <<Word>>, <<ValidField>>)>>}

TupleDocs ==
    SeqsUpTo(DayHours \cup {<<0, 0>>}, MaxLines)
    \cup {<<dh, <<31, 12>>, dh>> : dh \in BadDayHours}

\* get_latest_run's result before any probe: (None, None)
NoRun == [date |-> None, run |-> None]

\* no request is made: the document and its cycle are given
NotFetching ==
    /\ now = 0
    /\ server = [head |-> <<>>, get |-> <<>>]
    /\ requests_sent = 0
    /\ station_id = ""
    /\ probe = 0
    /\ probes = <<>>
    /\ latest = NoRun
    /\ other = None

\* nobody calls load_station_metadata
NotLoading ==
    /\ STATION_META = None
    /\ callers = <<>>
    /\ downloads = 0

\* build_hourly_rows is not called
NotBuilding ==
    /\ args = <<>>
    /\ cur = <<>>
    /\ row_i = 0
    /\ hourly_rows = <<>>

InitCommon ==
    /\ NotFetching
    /\ NotLoading
    /\ NotBuilding
    /\ pc = "detect"
    /\ idx = 0
    /\ last_forecast_dt_utc = None
    /\ rows = <<>>
    /\ results = <<>>
    /\ error = ""

Init ==
    /\ InitCommon
    /\ \/ /\ fn = "parse_bull"
          /\ cycle_dt_utc \in Cycles
          /\ cycle_is_utc = TRUE
          /\ lines \in TimeDocs
          /\ day_hour_tuples = <<>>
       \/ /\ fn = "hourly_series"
          /\ cycle_dt_utc \in SeriesCycles
          /\ lines = <<>>
          /\ \/ cycle_is_utc = TRUE /\ day_hour_tuples \in TupleDocs
             \/ cycle_is_utc = FALSE /\ day_hour_tuples \in SeqsUpTo(DayHours, 1)

(***************************************************************************)
(* Inputs that vary the swell fields: a line has up to MaxFields swell     *)
(* fields, the first drawn from the templates and the others alike from    *)
(* the templates, after a row, after a dropped row or as the first row.    *)
(***************************************************************************)
FieldTemplates ==
    {<<Num(150), Num(1230), IntTok(200)>>,
     <<Star, Num(11), Num(800), IntTok(350)>>,
     <<Num(150), Num(1230)>>,
     <<Num(150), Word, IntTok(200), IntTok(90)>>,
     <<Flagged(11), Num(800), IntTok(-10)>>,
     <<Num(90), Num(1012), Num(53990)>>,
     <<Num(-150), Num(1230), IntTok(200)>>,
     <<Star>>}

HstTemplates == {HstField, <<Flagged(210)>>, <<Star, Num(210)>>, <<Word>>, <<Num(-50)>>}

FieldsOf(n, a, b) == [k \in 1..n |-> IF k = 1 THEN a ELSE b]

SwellFieldLists == {FieldsOf(n, a, b) : n \in 0..MaxFields, a \in FieldTemplates, b \in FieldTemplates}

SwellLines == {RowLine(1, 0, hst, fl) : hst \in HstTemplates, fl \in SwellFieldLists}

SwellPrefixes == {<<>>, <<RowLine(30, 23, HstField, <<ValidField>>)>>, <<RowLine(31, 0, HstField, <<ValidField>>)>>}

OffsetSwellLines ==
    {OffsetLine(hr, fl, tail) :
        hr \in {IntTok(0), Num(150)}, fl \in SwellFieldLists,
        tail \in {<<Num(210)>>, Words(12) \o <<Flagged(210), Star>>, Words(12) \o <<Num(-50)>>}}

SwellDocs ==
    {<<MarkerLine>> \o p \o <<l>> : p \in SwellPrefixes, l \in SwellLines \cup {NoHstLine}}
    \cup {<<HrLine, l>> : l \in OffsetSwellLines}

InitSwell ==
    /\ InitCommon
    /\ fn = "parse_bull"
    /\ cycle_dt_utc \in {MkDt(2025, 8, 7, 12), MkDt(2025, 9, 30, 0)}
    /\ cycle_is_utc = TRUE
    /\ lines \in SwellDocs
    /\ day_hour_tuples = <<>>

ParseNext ==
    \/ Detect
    \/ DayHourSkipLine
    \/ DayHourIndexError
    \/ DayHourInvalidAnchor
    \/ DayHourAnchorRow
    \/ DayHourNextRow
    \/ HourOffsetSkipLine
    \/ HourOffsetLine
    \/ RoundRows
    \/ Return

Next ==
    \/ ParseNext
    \/ SeriesNotUtc
    \/ SeriesStart
    \/ SeriesInvalidAnchor
    \/ SeriesAnchor
    \/ SeriesNext
    \/ SeriesReturn

Spec == Init /\ [][Next]_vars

SpecSwell == InitSwell /\ [][ParseNext]_vars

(***************************************************************************)
(* Properties of the DayHour timestamp reconstruction.                     *)
(***************************************************************************)
\* The run reads the day/hour dialect: parse_bull on a bulletin with the marker,
\* or hourly_series_from_day_hour.
IsDayHour == fn = "hourly_series" \/ (fn = "parse_bull" /\ UsesDayHourFormat(lines))

Produced == IF fn = "parse_bull" THEN rows ELSE results

\* timestamp_utc of the k-th produced row
Stamp(k) == Produced[k].ts

\* the raw (day_of_month, hour_of_day) fields the k-th produced row was read from
RawDay(k) == IF fn = "parse_bull" THEN DayVal(lines[Produced[k].src]) ELSE day_hour_tuples[Produced[k].src][1]
RawHour(k) == IF fn = "parse_bull" THEN HourVal(lines[Produced[k].src]) ELSE day_hour_tuples[Produced[k].src][2]

\* datetime(y, m + off, d, h) for the off-th month after (y, m)
MonthAfter(y, m, off) == [y |-> y + ((m - 1 + off) \div 12), m |-> ((m - 1 + off) % 12) + 1]

\* The earliest instant at or after th whose day-of-month is d and hour-of-day is h:
\* th itself when it matches, else the first of the months th's, th's + 1, ... in
\* which day d exists and d at h:00 is not before th.
RECURSIVE SearchMonths(_, _, _, _)
SearchMonths(th, d, h, off) ==
    LET ym == MonthAfter(YearOf(th), MonthOf(th), off)
    IN  IF d <= DaysInMonth(ym.y, ym.m) /\ MkDt(ym.y, ym.m, d, h) >= th
        THEN MkDt(ym.y, ym.m, d, h)
        ELSE SearchMonths(th, d, h, off + 1)

EarliestMatch(th, d, h) ==
    IF DayOf(th) = d /\ HourOf(th) = h THEN th ELSE SearchMonths(th, d, h, 0)

\* the threshold in force when the k-th produced row was computed
Threshold(k) == IF k = 1 THEN cycle_dt_utc ELSE Stamp(k - 1)

RawValid(k) == RawDay(k) \in 1..31 /\ RawHour(k) \in 0..23

\* C1: in the DayHour dialect the timestamps of the produced rows are strictly
\* increasing, whatever the cycle and the (day, hour) fields of the rows.
C1_StrictlyIncreasing ==
    IsDayHour => \A k \in 1..(Len(Produced) - 1) : Stamp(k + 1) > Stamp(k)

\* C1 witness: three rows were produced and the raw fields of one step back in time.
C1_Witness ==
    /\ fn = "parse_bull" /\ IsDayHour /\ pc = "done" /\ Len(Produced) >= 3
    /\ \E k \in 1..(Len(Produced) - 1) :
          RawDay(k + 1) = RawDay(k) /\ RawHour(k + 1) < RawHour(k)

\* C2 as stated: every produced row's timestamp is the earliest instant at or after
\* the current threshold whose day-of-month and hour-of-day equal the row's fields.
C2_Original ==
    IsDayHour => \A k \in 1..Len(Produced) :
        RawValid(k) => Stamp(k) = EarliestMatch(Threshold(k), RawDay(k), RawHour(k))

\* C2 amended: the first produced row's timestamp is its day and hour put into the
\* cycle's year and month, moved forward by whole days until it is not before the
\* cycle (so it is the earliest matching instant when that day and hour of the
\* cycle's month is not before the cycle, and otherwise keeps only the hour); every
\* later row's timestamp is the previous one plus one hour, whatever its fields.
C2_AnchorThenHourly ==
    IsDayHour => \A k \in 1..Len(Produced) :
        IF k = 1
        THEN LET base == MkDt(YearOf(cycle_dt_utc), MonthOf(cycle_dt_utc), RawDay(1), RawHour(1))
                         + (IF fn = "parse_bull" THEN SecOfHour(cycle_dt_utc) ELSE 0)
             IN  /\ RawDay(1) \in 1..DaysInMonth(YearOf(cycle_dt_utc), MonthOf(cycle_dt_utc))
                 /\ Stamp(1) >= cycle_dt_utc
                 /\ \E j \in 0..31 : Stamp(1) = base + j * DAY /\ (j = 0 \/ Stamp(1) - DAY < cycle_dt_utc)
                 /\ HourOf(Stamp(1)) = RawHour(1)
                 /\ (base >= cycle_dt_utc => Stamp(1) = EarliestMatch(cycle_dt_utc, RawDay(1), RawHour(1)))
        ELSE Stamp(k) = Stamp(k - 1) + HOUR

\* C2 witness: the first row was moved to another day of the month than its field
\* names, and a later row's timestamp does not carry that row's hour.
C2_Witness ==
    /\ IsDayHour /\ pc = "done" /\ Len(Produced) >= 2
    /\ DayOf(Stamp(1)) # RawDay(1)
    /\ \E k \in 2..Len(Produced) : RawValid(k) /\ HourOf(Stamp(k)) # RawHour(k)

\* year and month of an instant as one number
YearMonth(t) == YearOf(t) * 12 + MonthOf(t)

\* a bulletin that steps one hour per row from a day and hour of the cycle's month
\* not before the cycle, its day-of-month wrapping at the end of that month
IsHourlyBulletin ==
    /\ fn = "parse_bull"
    /\ \E sh \in {<<31, 12>>, <<28, 18>>, <<30, 0>>, <<31, 18>>}, n \in 1..RolloverLen :
          /\ lines = HourlyDoc(sh[1], sh[2], DaysInMonth(YearOf(cycle_dt_utc), MonthOf(cycle_dt_utc)), n)
          /\ sh[1] <= DaysInMonth(YearOf(cycle_dt_utc), MonthOf(cycle_dt_utc))
          /\ MkDt(YearOf(cycle_dt_utc), MonthOf(cycle_dt_utc), sh[1], sh[2]) >= cycle_dt_utc

SpecExample ==
    /\ fn = "parse_bull"
    /\ cycle_dt_utc = MkDt(2025, 8, 31, 12)
    /\ lines = HourlyDoc(31, 12, 31, 14)

\* C3: when a row's raw day-of-month is smaller than the previous row's, its
\* timestamp is the previous one plus an hour, never in an earlier month; in an
\* hourly bulletin it falls on the row's own day and hour of the next month; and the
\* cycle 2025-08-31T12Z with rows (31,12) .. (31,23), (1,0), (1,1) gives hourly
\* timestamps ending 2025-09-01T00Z, 2025-09-01T01Z.
C3_MonthRollover ==
    /\ IsDayHour =>
          \A k \in 1..(Len(Produced) - 1) :
              RawDay(k + 1) < RawDay(k) =>
                  /\ Stamp(k + 1) = Stamp(k) + HOUR
                  /\ YearMonth(Stamp(k + 1)) >= YearMonth(Stamp(k))
                  /\ IsHourlyBulletin =>
                        /\ YearMonth(Stamp(k + 1)) = YearMonth(Stamp(k)) + 1
                        /\ DayOf(Stamp(k + 1)) = RawDay(k + 1)
                        /\ HourOf(Stamp(k + 1)) = RawHour(k + 1)
    /\ (SpecExample /\ pc = "done") =>
          /\ Len(rows) = 14
          /\ \A k \in 1..12 : Stamp(k) = MkDt(2025, 8, 31, 11 + k)
          /\ Stamp(13) = MkDt(2025, 9, 1, 0)
          /\ Stamp(14) = MkDt(2025, 9, 1, 1)

\* C3 witness: the example of the specification has been parsed to its end.
C3_Witness == SpecExample /\ pc = "done" /\ RawDay(13) < RawDay(12) /\ MonthOf(Stamp(13)) = 9

\* C4: consecutive produced rows of a DayHour bulletin differ by exactly one hour.
C4_ExactlyOneHour ==
    IsDayHour => \A k \in 1..(Len(Produced) - 1) : Stamp(k + 1) - Stamp(k) = HOUR

\* C4 witness: two rows whose raw fields are more than an hour apart were produced.
C4_Witness ==
    /\ IsDayHour /\ pc = "done"
    /\ \E k \in 1..(Len(Produced) - 1) :
          RawDay(k + 1) = RawDay(k) /\ RawHour(k + 1) > RawHour(k) + 1

\* the lines (or tuples) already read that carry a day and an hour and, in
\* parse_bull, the combined-height field that the line is read up to
Consumed ==
    IF fn = "parse_bull"
    THEN {j \in 1..Len(lines) : j < idx /\ IsDataLine(lines[j]) /\ Len(lines[j].fields) >= 2}
    ELSE {j \in 1..Len(day_hour_tuples) : j < idx}

DayAt(j) == IF fn = "parse_bull" THEN DayVal(lines[j]) ELSE day_hour_tuples[j][1]
HourAt(j) == IF fn = "parse_bull" THEN HourVal(lines[j]) ELSE day_hour_tuples[j][2]

RowsBefore(j) == {k \in 1..Len(Produced) : Produced[k].src < j}
RowOf(j) == {k \in 1..Len(Produced) : Produced[k].src = j}

\* the threshold in force when line j was read: the cycle, or the last timestamp
ThresholdAt(j) ==
    IF RowsBefore(j) = {} THEN cycle_dt_utc
    ELSE Stamp(CHOOSE k \in RowsBefore(j) : \A m \in RowsBefore(j) : m <= k)

InvalidInMonthOf(t, d) == d \in 1..31 /\ d > DaysInMonth(YearOf(t), MonthOf(t))

\* C5 as stated: a row whose day is invalid in the threshold's month but exists in a
\* later month is not dropped, and its timestamp lies in the first later month in
\* which the day exists.
C5_Original ==
    IsDayHour => \A j \in Consumed :
        (InvalidInMonthOf(ThresholdAt(j), DayAt(j)) /\ HourAt(j) \in 0..23) =>
            \E k \in RowOf(j) : Stamp(k) = SearchMonths(ThresholdAt(j), DayAt(j), HourAt(j), 0)

\* C5 amended: no later month is searched.  Before any row has been accepted, a row
\* whose day does not exist in the cycle's month is dropped; once a row has been
\* accepted, such a row is not dropped and gets the previous timestamp plus one hour.
C5_DroppedBeforeAnchor ==
    IsDayHour => \A j \in Consumed :
        InvalidInMonthOf(cycle_dt_utc, DayAt(j)) =>
            IF RowsBefore(j) = {}
            THEN RowOf(j) = {}
            ELSE \E k \in RowOf(j) : k > 1 /\ Stamp(k) = Stamp(k - 1) + HOUR

\* C5 witness: a row with day 31 was dropped in a 30-day cycle month, and a later
\* row with day 31 was kept.
C5_Witness ==
    /\ IsDayHour /\ pc = "done"
    /\ \E j \in Consumed : InvalidInMonthOf(cycle_dt_utc, DayAt(j)) /\ RowOf(j) = {}
    /\ \E j \in Consumed : InvalidInMonthOf(cycle_dt_utc, DayAt(j)) /\ RowOf(j) # {}

\* C6: every timestamp of the DayHour reconstruction is at or after the cycle.
C6_NotBeforeCycle ==
    IsDayHour => \A k \in 1..Len(Produced) : Stamp(k) >= cycle_dt_utc

\* C6 witness: the first row's day and hour, put into the cycle's month, lie before
\* the cycle, and the row was produced.
C6_Witness ==
    /\ IsDayHour /\ Len(Produced) >= 1
    /\ MkDt(YearOf(cycle_dt_utc), MonthOf(cycle_dt_utc), RawDay(1), RawHour(1)) < cycle_dt_utc

(***************************************************************************)
(* Properties of the swell groups of the produced rows.                    *)
(***************************************************************************)
ReadsDayHour == fn = "parse_bull" /\ UsesDayHourFormat(lines)
ReadsHourOffset == fn = "parse_bull" /\ ~UsesDayHourFormat(lines)

Present(g) == g.hs # None
Absent(g) == g.hs = None /\ g.tp = None /\ g.dir = None
Full(g) == g.hs # None /\ g.tp # None /\ g.dir # None

\* the swell fields of the line the k-th row was read from (DayHour)
SwellFieldsOf(k) == SubSeq(lines[rows[k].src].fields, 3, Len(lines[rows[k].src].fields))

\* the tokens of a field that are not a lone flag marker
Usable(field) == SelectSeq(field, LAMBDA t : t.k # "star")

\* a field whose first three usable tokens exist and are numbers
ThreeNumbers(field) == Len(Usable(field)) >= 3 /\ \A i \in 1..3 : Usable(field)[i].k = "num"

\* the tokens of the line the k-th row was read from (HourOffset), and the
\* positions, from the seventh token on, of those that are numbers
TokensOf(k) == WsTokens(lines[rows[k].src])
NumberPositions(k) == {i \in 7..Len(TokensOf(k)) : TokensOf(k)[i].k = "num"}

\* the position of the n-th number from the seventh token on (6 for n = 0)
NumberPos(k, n) ==
    IF n = 0 THEN 6
    ELSE CHOOSE i \in NumberPositions(k) : Cardinality({j \in NumberPositions(k) : j <= i}) = n

\* C7: every produced row has exactly six swell groups; in the DayHour dialect
\* group g is read from swell field g for g up to six (fields beyond the sixth are
\* cut) and is absent when the line has fewer than g swell fields; in the HourOffset
\* dialect group g is absent when fewer than 3g numbers are left on the line.
C7_SixGroups ==
    \A k \in 1..Len(rows) :
        /\ Len(rows[k].sw) = 6
        /\ ReadsDayHour => \A g \in 1..6 :
              IF g <= Len(SwellFieldsOf(k))
              THEN Present(rows[k].sw[g]) <=> ThreeNumbers(SwellFieldsOf(k)[g])
              ELSE Absent(rows[k].sw[g])
        /\ ReadsHourOffset => \A g \in 1..6 :
              Cardinality(NumberPositions(k)) < 3 * g => Absent(rows[k].sw[g])

\* C7 witness: a DayHour row read from a line with more than six swell fields, the
\* seventh of them usable, has been produced and rounded.
C7_Witness ==
    /\ ReadsDayHour /\ pc = "done"
    /\ \E k \in 1..Len(rows) :
          /\ Len(SwellFieldsOf(k)) > 6
          /\ ThreeNumbers(SwellFieldsOf(k)[7])
          /\ Present(rows[k].sw[6])

AllOrNothing == \A k \in 1..Len(rows) : \A g \in 1..Len(rows[k].sw) : Absent(rows[k].sw[g]) \/ Full(rows[k].sw[g])

DayHourFieldRule ==
    ReadsDayHour => \A k \in 1..Len(rows) : \A g \in 1..Min(6, Len(SwellFieldsOf(k))) :
        ~ThreeNumbers(SwellFieldsOf(k)[g]) => Absent(rows[k].sw[g])

\* C8 as stated: all-or-nothing, and a field with fewer than three usable numeric
\* tokens or any parse failure gives an absent group; in the HourOffset dialect the
\* tokens a group is read from run from after the last number of the group before
\* it to its own third number, and a parse failure is a word among them.
C8_Original ==
    /\ AllOrNothing
    /\ DayHourFieldRule
    /\ ReadsHourOffset => \A k \in 1..Len(rows) : \A g \in 1..Len(rows[k].sw) :
          Present(rows[k].sw[g]) =>
              \A i \in (NumberPos(k, 3 * g - 3) + 1)..NumberPos(k, 3 * g) : TokensOf(k)[i].k # "word"

\* C8 amended: all-or-nothing in both dialects; a DayHour field with fewer than three
\* usable tokens or a parse failure among its first three gives an absent group; in
\* the HourOffset dialect a token that fails to parse is passed over, and group g is
\* absent exactly when fewer than 3g numbers are left from the seventh token on.
C8_AllOrNothing ==
    /\ AllOrNothing
    /\ DayHourFieldRule
    /\ ReadsHourOffset => \A k \in 1..Len(rows) : \A g \in 1..Len(rows[k].sw) :
          Absent(rows[k].sw[g]) <=> Cardinality(NumberPositions(k)) < 3 * g

\* C8 witness: a rounded HourOffset row holds a full group read across a token that
\* failed to parse, and an absent group.
C8_Witness ==
    /\ ReadsHourOffset /\ pc = "done"
    /\ \E k \in 1..Len(rows) :
          /\ Full(rows[k].sw[1])
          /\ \E i \in 7..NumberPos(k, 3) : TokensOf(k)[i].k = "word"
          /\ \E g \in 2..6 : Absent(rows[k].sw[g])

\* int(float(token)) of the third usable token of a field
RawDirection(field) == TruncInt(Usable(field)[3].v)

\* C9: in the DayHour dialect the stored direction of every group with a parsed raw
\* direction d is (d + 180) mod 360; raw 200 is stored as 20 and raw 350 as 170.
C9_DirectionShift ==
    ReadsDayHour => \A k \in 1..Len(rows) : \A g \in 1..Min(6, Len(SwellFieldsOf(k))) :
        ThreeNumbers(SwellFieldsOf(k)[g]) =>
            /\ rows[k].sw[g].dir = <<(RawDirection(SwellFieldsOf(k)[g]) + 180) % 360>>
            /\ RawDirection(SwellFieldsOf(k)[g]) = 200 => rows[k].sw[g].dir = <<20>>
            /\ RawDirection(SwellFieldsOf(k)[g]) = 350 => rows[k].sw[g].dir = <<170>>

\* C9 witness: a returned row holds a group read from raw 200 and one from raw 350.
C9_Witness ==
    /\ ReadsDayHour /\ pc = "done"
    /\ \E k \in 1..Len(rows) : \E g, h \in 1..Min(6, Len(SwellFieldsOf(k))) :
          /\ ThreeNumbers(SwellFieldsOf(k)[g]) /\ RawDirection(SwellFieldsOf(k)[g]) = 200
          /\ ThreeNumbers(SwellFieldsOf(k)[h]) /\ RawDirection(SwellFieldsOf(k)[h]) = 350
          /\ rows[k].sw[h].dir = <<170>>

\* C10: a direction present in a produced row, in either dialect and before and
\* after the rounding pass, lies in 0 .. 359.
C10_DirectionRange ==
    \A k \in 1..Len(rows) : \A g \in 1..Len(rows[k].sw) :
        rows[k].sw[g].dir # None => (rows[k].sw[g].dir[1] >= 0 /\ rows[k].sw[g].dir[1] < 360)

\* C10 witness: a returned HourOffset row holds directions read from a negative raw
\* token and from a raw token above 360.
C10_Witness ==
    /\ ReadsHourOffset /\ pc = "done"
    /\ \E k \in 1..Len(rows) : \E g, h \in 1..6 :
          /\ Present(rows[k].sw[g]) /\ TokensOf(k)[NumberPos(k, 3 * g)].v < 0
          /\ Present(rows[k].sw[h]) /\ TokensOf(k)[NumberPos(k, 3 * h)].v >= 36000

(***************************************************************************)
(* Properties of the heights, of dropped lines and of the error returns.   *)
(***************************************************************************)
\* a stored height (feet, c hundredths and a rest of less than a hundredth) is not
\* below zero
NonNegative(h) == h.c >= 0

\* C11: in every produced row the combined height and every present swell height
\* are non-negative, whatever the tokens they were read from.
C11_NonNegativeHeights ==
    \A k \in 1..Len(rows) :
        /\ rows[k].comb # None => NonNegative(rows[k].comb[1])
        /\ \A g \in 1..Len(rows[k].sw) :
              rows[k].sw[g].hs # None => NonNegative(rows[k].sw[g].hs[1])

\* a line that holds every field its dialect requires: a day and an hour that
\* exist in the cycle's month and a combined-height field, or, after the header of
\* the older dialect, a numeric hour offset on a line of at least 20 tokens
WellFormed(j) ==
    IF UsesDayHourFormat(lines)
    THEN /\ IsDataLine(lines[j])
         /\ Len(lines[j].fields) >= 2
         /\ ReplaceOk(cycle_dt_utc, DayVal(lines[j]), HourVal(lines[j]))
    ELSE /\ HasHeader(lines)
         /\ j > HeaderIdx(lines)
         /\ Len(WsTokens(lines[j])) >= 20
         /\ WsTokens(lines[j])[1].k = "num"
         /\ ~WsTokens(lines[j])[1].star

\* C12: a malformed row never aborts the document: no exception leaves parse_bull,
\* and once the document has been read every well-formed line has yielded a row,
\* whatever malformed lines (a '|' line with a day and hour but no second field
\* among them) stand before it.
C12_MalformedRowDropped ==
    fn = "parse_bull" =>
        /\ pc # "raised"
        /\ pc = "done" => \A j \in 1..Len(lines) : WellFormed(j) => RowOf(j) # {}

\* the row loop of one of the dialects has run over the document
Scanned == fn = "parse_bull" /\ pc = "done" /\ (UsesDayHourFormat(lines) \/ HasHeader(lines))

\* C13: when the scan of a bulletin of either dialect has produced no row, the
\* result is the error "No data rows parsed from .bull file." with no row list,
\* never a success with an empty list; and that error is returned in no other case.
C13_FatalOnEmpty ==
    Scanned =>
        /\ rows = <<>> => (error = "No data rows parsed from .bull file." /\ ReturnedRows = None)
        /\ rows # <<>> => (error = "" /\ ReturnedRows = Some(rows))

\* C13 witness: a bulletin of the day/hour dialect whose only candidate rows were
\* dropped has been read to its end and returned the error.
C13_Witness ==
    /\ Scanned /\ UsesDayHourFormat(lines) /\ rows = <<>>
    /\ \E j \in 1..Len(lines) : lines[j].bar /\ ~lines[j].hst
    /\ error = "No data rows parsed from .bull file."

\* C14: in the older dialect, when no line of the document starts the data section,
\* the parse ends at once with the error "Data section not found in .bull file."
\* for the whole document: no line is read as data and no rows are returned.
C14_HeaderNotFound ==
    (fn = "parse_bull" /\ ~UsesDayHourFormat(lines) /\ ~HasHeader(lines)) =>
        /\ pc \in {"detect", "done"}
        /\ rows = <<>>
        /\ pc = "done" =>
              (error = "Data section not found in .bull file." /\ ReturnedRows = None)

\* C14 witness: a document without header whose lines would have parsed as data
\* rows has been refused.
C14_Witness ==
    /\ fn = "parse_bull" /\ ~UsesDayHourFormat(lines) /\ ~HasHeader(lines) /\ pc = "done"
    /\ \E j \in 1..Len(lines) : Len(WsTokens(lines[j])) >= 20 /\ WsTokens(lines[j])[1].k = "num"
    /\ error = "Data section not found in .bull file."

(***************************************************************************)
(* Properties of header discovery and of format detection.                 *)
(***************************************************************************)
\* the first whitespace-delimited token of a line, lower-cased and with the
\* characters that are neither letters nor digits removed
Normalized(j) ==
    SelectSeq(Lower(Strip(lines[j].head)), LAMBDA ch : ch \notin {".", " ", "|", "&", ":"})

HourOffsetSynonyms == {<<"h", "r">>, <<"f", "h", "r">>, <<"h", "o", "u", "r">>}

NormalizedHeaders == {k \in 1..Len(lines) : Normalized(k) \in HourOffsetSynonyms}

\* the lines whose first characters after the leading blanks are 'H' and 'r'
BeginsHr(j) ==
    \E i \in 1..(Len(lines[j].head) - 1) :
        /\ lines[j].head[i] = "H"
        /\ lines[j].head[i + 1] = "r"
        /\ \A m \in 1..(i - 1) : lines[j].head[m] = " "

HrHeaders == {k \in 1..Len(lines) : BeginsHr(k)}

First(S) == CHOOSE k \in S : \A m \in S : k <= m

\* a line of at least 20 tokens with a numeric first token
FullDataLine(j) ==
    /\ Len(WsTokens(lines[j])) >= 20
    /\ WsTokens(lines[j])[1].k = "num"
    /\ ~WsTokens(lines[j])[1].star

ReadAsOffset == fn = "parse_bull" /\ ~UsesDayHourFormat(lines) /\ pc = "done"

\* C15 as stated: the first line whose first token normalizes to an hour-offset
\* synonym is accepted as the header ("Hr.", "HR" and "hr" alike): the header is
\* found and the full data lines after it yield rows.
C15_Original ==
    (ReadAsOffset /\ NormalizedHeaders # {}) =>
        /\ error # "Data section not found in .bull file."
        /\ \A j \in 1..Len(lines) :
              (j > First(NormalizedHeaders) /\ FullDataLine(j)) => RowOf(j) # {}

\* C15 amended: header discovery compares the characters of the line itself: the
\* header is the first line that, once its surrounding blanks are stripped, starts
\* with the two characters "Hr", case-sensitively and with nothing else normalized;
\* "Hr", "Hr." and " Hr" are recognised as the header row, "HR" and "hr" are not.
C15_CaseSensitivePrefix ==
    ReadAsOffset =>
        /\ HrHeaders = {} <=> error = "Data section not found in .bull file."
        /\ \A j \in 1..Len(lines) :
              /\ RowOf(j) # {} => (HrHeaders # {} /\ j > First(HrHeaders))
              /\ (HrHeaders # {} /\ j > First(HrHeaders) /\ FullDataLine(j)) => RowOf(j) # {}
        /\ \A k \in 1..Len(lines) :
              /\ lines[k].head \in {<<"H", "r">>, <<"H", "r", ".">>, <<" ", "H", "r">>} => k \in HrHeaders
              /\ lines[k].head \in {<<"H", "R">>, <<"h", "r">>} => k \notin HrHeaders

\* C15 witness: a document with an "hr" line, a data line, an "Hr" line and a data
\* line has been read, and only the last line has yielded a row.
C15_Witness ==
    /\ ReadAsOffset
    /\ Len(lines) = 4 /\ lines[1].head = <<"h", "r">> /\ FullDataLine(2)
    /\ First(HrHeaders) = 3
    /\ RowOf(2) = {} /\ RowOf(4) # {}

\* the text holds "day &" in some mix of upper and lower case
SaysDayAmp(text) ==
    \E i \in 1..(Len(text) - 4) :
        /\ text[i] \in {"d", "D"}
        /\ text[i + 1] \in {"a", "A"}
        /\ text[i + 2] \in {"y", "Y"}
        /\ text[i + 3] = " "
        /\ text[i + 4] = "&"

MarkerInFirstTen == \E k \in 1..Len(lines) : k <= 10 /\ SaysDayAmp(lines[k].marker)

\* C16: the detector always answers, and it answers DayHour exactly when one of the
\* first 10 lines holds "day &" in any mix of case; a marker only after line 10, or
\* none, gives HourOffset (whose header search may then end the parse).
C16_DetectorWindow ==
    /\ []((fn = "parse_bull" /\ pc = "detect") => ENABLED Detect)
    /\ [][(fn = "parse_bull" /\ pc = "detect") =>
            /\ pc' \in {"dayhour", "houroffset", "done"}
            /\ pc' = "dayhour" <=> MarkerInFirstTen
            /\ pc' = "done" => error' = "Data section not found in .bull file."]_vars

\* C16 witness: a bulletin whose only marker stands on line 11 has been read as the
\* older dialect and has returned rows.
C16_Witness ==
    /\ fn = "parse_bull" /\ pc = "done"
    /\ ~MarkerInFirstTen
    /\ Len(lines) > 10 /\ SaysDayAmp(lines[11].marker)
    /\ rows # <<>> /\ error = ""

(***************************************************************************)
(* Properties of the rows of the older (hour offset) dialect.              *)
(***************************************************************************)
\* the first token of line j is not a number for float(): a word, a lone '*' or a
\* number with a '*' attached
NonNumericOffset(j) ==
    Len(WsTokens(lines[j])) >= 1
    /\ (WsTokens(lines[j])[1].k # "num" \/ WsTokens(lines[j])[1].star)

AfterHeader(j) == HrHeaders # {} /\ j > First(HrHeaders)

\* C17: in the older dialect a line after the header whose hour-offset token is not
\* numeric raises nothing and yields no row, and the full data lines after it are
\* still parsed into rows, in file order.
C17_GracefulDegradation ==
    (fn = "parse_bull" /\ ~UsesDayHourFormat(lines)) =>
        /\ (idx \in 1..Len(lines) /\ NonNumericOffset(idx)) => pc # "raised"
        /\ \A k \in 1..(Len(rows) - 1) : rows[k].src < rows[k + 1].src
        /\ \A j \in 1..Len(lines) : NonNumericOffset(j) => RowOf(j) = {}
        /\ pc = "done" =>
              \A j \in 1..Len(lines) : (AfterHeader(j) /\ FullDataLine(j)) => RowOf(j) # {}

\* C17 witness: a full-length line with a non-numeric hour offset stands between
\* two data lines, and both of them have yielded rows.
C17_Witness ==
    /\ ReadAsOffset
    /\ \E i, j, k \in 1..Len(lines) :
          /\ i < j /\ j < k
          /\ RowOf(i) # {} /\ RowOf(k) # {}
          /\ NonNumericOffset(j) /\ Len(WsTokens(lines[j])) >= 20 /\ RowOf(j) = {}

\* the first token of line j parses as a number
NumericOffset(j) ==
    /\ Len(WsTokens(lines[j])) >= 1
    /\ WsTokens(lines[j])[1].k = "num"
    /\ ~WsTokens(lines[j])[1].star

\* C18 as stated: every non-empty line after the header whose hour-offset token
\* parses as a number produces a row, whatever else the line holds.
C18_Original ==
    ReadAsOffset => \A j \in 1..Len(lines) : (AfterHeader(j) /\ NumericOffset(j)) => RowOf(j) # {}

\* C18 amended: a line after the header produces a row exactly when its hour-offset
\* token parses as a number and it has at least 20 whitespace-separated tokens; no
\* other check applies, and the swell tokens (missing, flagged, negative or not
\* numbers at all) never cause such a line to be dropped.
C18_TwentyTokens ==
    ReadAsOffset => \A j \in 1..Len(lines) :
        RowOf(j) # {} <=> (AfterHeader(j) /\ NumericOffset(j) /\ Len(WsTokens(lines[j])) >= 20)

\* C18 witness: a line of exactly 20 tokens with a word among its swell tokens has
\* produced a row whose last groups are absent.
C18_Witness ==
    /\ ReadAsOffset
    /\ \E j \in 1..Len(lines) :
          /\ AfterHeader(j) /\ Len(WsTokens(lines[j])) = 20
          /\ \E i \in 7..19 : WsTokens(lines[j])[i].k = "word"
          /\ \E k \in RowOf(j) : Absent(rows[k].sw[6])

\* the hour offset of the line the k-th row was read from, in hundredths of an hour
OffsetOf(k) == TokensOf(k)[1].v

\* C19 as stated: each row's timestamp is the cycle plus floor(hour_offset) whole
\* hours, so it is always a whole number of hours after the cycle.
C19_Original ==
    ReadsHourOffset => \A k \in 1..Len(rows) :
        /\ rows[k].ts = cycle_dt_utc + (OffsetOf(k) \div 100) * 3600
        /\ (rows[k].ts - cycle_dt_utc) % 3600 = 0

\* C19 amended: each row's timestamp is the cycle plus the hour offset as written,
\* its fraction of an hour kept (1.5 gives 1 h 30 min); it is a whole number of hours
\* after the cycle exactly when the offset is a whole number.
C19_ExactOffset ==
    ReadsHourOffset => \A k \in 1..Len(rows) :
        /\ (rows[k].ts - cycle_dt_utc) * 100 = OffsetOf(k) * 3600
        /\ (rows[k].ts - cycle_dt_utc) % 3600 = 0 <=> OffsetOf(k) % 100 = 0
        /\ OffsetOf(k) = 150 => rows[k].ts = cycle_dt_utc + 5400

\* C19 witness: rows read from the offsets 1.50 and -1 have been returned.
C19_Witness ==
    /\ ReadsHourOffset /\ pc = "done"
    /\ \E k, m \in 1..Len(rows) :
          /\ OffsetOf(k) = 150 /\ rows[k].ts = cycle_dt_utc + 5400
          /\ OffsetOf(m) = -100 /\ rows[m].ts = cycle_dt_utc - 3600

\* C20 as stated: the timestamps of the rows of the older dialect are strictly
\* increasing in output order, whatever the order of the hour offsets of the lines.
C20_Original ==
    ReadsHourOffset => \A k \in 1..(Len(rows) - 1) : rows[k + 1].ts > rows[k].ts

\* C20 amended: the rows stand in file order and a row's timestamp grows strictly
\* with the hour offset of its line, so the timestamps are strictly increasing in
\* output order exactly when the hour offsets of the accepted lines are strictly
\* increasing in file order; a repeated or smaller offset gives a repeated or
\* earlier timestamp, and nothing is sorted or dropped.
C20_MonotonicInOffset ==
    ReadsHourOffset =>
        /\ \A k \in 1..(Len(rows) - 1) : rows[k].src < rows[k + 1].src
        /\ \A j, k \in 1..Len(rows) : rows[k].ts > rows[j].ts <=> OffsetOf(k) > OffsetOf(j)
        /\ (\A k \in 1..(Len(rows) - 1) : rows[k + 1].ts > rows[k].ts)
              <=> (\A k \in 1..(Len(rows) - 1) : OffsetOf(k + 1) > OffsetOf(k))

\* C20 witness: two lines with the offsets 1 and 0, in this order, have yielded two
\* rows whose timestamps step back by an hour.
C20_Witness ==
    /\ ReadsHourOffset /\ pc = "done"
    /\ \E k \in 1..(Len(rows) - 1) :
          /\ OffsetOf(k) = 100 /\ OffsetOf(k + 1) = 0
          /\ rows[k + 1].ts = rows[k].ts - 3600

(***************************************************************************)
(* Properties of the stored values: units, rounding and flag markers.      *)
(***************************************************************************)
\* the token (hundredths of a metre) the height of group g of row k was read from
HeightToken(k, g) ==
    IF ReadsDayHour THEN Usable(SwellFieldsOf(k)[g])[1].v
    ELSE TokensOf(k)[NumberPos(k, 3 * g - 2)].v

\* the token the combined height of row k was read from
CombinedToken(k) ==
    IF ReadsDayHour THEN lines[rows[k].src].fields[2][1].v
    ELSE LET nums == {i \in 1..Len(TokensOf(k)) : TokensOf(k)[i].k = "num"}
         IN  TokensOf(k)[CHOOSE i \in nums : \A m \in nums : m <= i].v

\* the heights of row k with the token each was read from
HeightsOf(k) ==
    {<<rows[k].sw[g].hs[1], HeightToken(k, g)>> : g \in {i \in 1..Len(rows[k].sw) : Present(rows[k].sw[i])}}
    \cup (IF rows[k].comb # None THEN {<<rows[k].comb[1], CombinedToken(k)>>} ELSE {})

\* h (hundredths of a foot and a rest in 1e-7 ft) is exactly v * 3.28084
ExactFeet(h, v) == (h.c - 3 * v) * 100000 + h.e = 28084 * v

\* h is a whole number of hundredths of a foot, nearest to v * 3.28084
NearestFeet(h, v) ==
    /\ h.e = 0
    /\ (h.c - 3 * v) * 100000 - 28084 * v >= -50000
    /\ (h.c - 3 * v) * 100000 - 28084 * v <= 50000

\* C21 as stated: the rows carry the heights in metres exactly as read, and the
\* rounding pass does not change them.
C21_Original ==
    fn = "parse_bull" => \A k \in 1..Len(rows) : \A p \in HeightsOf(k) :
        p[1].c = p[2] /\ p[1].e = 0

\* C21 amended: the rows carry the heights in feet: a height is appended as the
\* metre value read times 3.28084, and the rounding pass then replaces it in the row
\* by that product rounded to two decimals; the metre value is not kept in the row.
C21_StoredInFeet ==
    fn = "parse_bull" => \A k \in 1..Len(rows) : \A p \in HeightsOf(k) :
        /\ pc \in {"dayhour", "houroffset"} => ExactFeet(p[1], p[2])
        /\ pc \in {"return", "done"} => NearestFeet(p[1], p[2])
        /\ p[2] = 150 => p[1].c = 492

\* C21 witness: a returned row holds 4.92 for a swell height read as 1.50 and 6.89
\* for a combined height read as 2.10.
C21_Witness ==
    /\ fn = "parse_bull" /\ pc = "done"
    /\ \E k \in 1..Len(rows) :
          /\ <<[c |-> 492, e |-> 0], 150>> \in HeightsOf(k)
          /\ <<[c |-> 689, e |-> 0], 210>> \in HeightsOf(k)

\* C22: the rounding step (heights to 2 decimals, period to 1 decimal, direction to
\* a whole degree, absent values left absent) applied twice to a row gives the same
\* row as applied once; the rows returned are unchanged by a further rounding.
C22_RoundingIdempotent ==
    \A k \in 1..Len(rows) :
        /\ RoundRow(RoundRow(rows[k])) = RoundRow(rows[k])
        /\ pc \in {"return", "done"} => RoundRow(rows[k]) = rows[k]
        /\ \A g \in 1..Len(rows[k].sw) : Absent(rows[k].sw[g]) => Absent(RoundRow(rows[k]).sw[g])
        /\ rows[k].comb = None => RoundRow(rows[k]).comb = None

\* C22 witness: a returned row holds a height and a period that the rounding pass
\* changed (1.50 m to 4.92 ft, 10.12 s to 10.1 s) beside an absent group.
C22_Witness ==
    /\ fn = "parse_bull" /\ pc = "done"
    /\ \E k \in 1..Len(rows) :
          /\ \E g \in 1..6 : Present(rows[k].sw[g]) /\ HeightToken(k, g) = 150
                             /\ rows[k].sw[g].hs[1] = [c |-> 492, e |-> 0]
          /\ \E g \in 1..6 : Present(rows[k].sw[g]) /\ rows[k].sw[g].tp = <<1010>>
          /\ \E g \in 1..6 : Absent(rows[k].sw[g])
          /\ RoundRow(rows[k]) = rows[k]

\* the combined-height field of the line the k-th row was read from (DayHour)
HstFieldOf(k) == lines[rows[k].src].fields[2]

\* the value a field starts with once its flag markers are removed
FlaggedValue(field) == Usable(field)[1].v

\* C23: in the DayHour dialect flag markers are removed before parsing: a combined
\* height or a swell field whose value carries a '*' or follows a lone '*' token
\* gives the same value and the same presence as the field without the marker.
C23_FlagsStripped ==
    ReadsDayHour => \A k \in 1..Len(rows) :
        /\ (Usable(HstFieldOf(k)) # <<>> /\ Usable(HstFieldOf(k))[1].k = "num") =>
              /\ rows[k].comb # None
              /\ pc = "dayhour" => ExactFeet(rows[k].comb[1], FlaggedValue(HstFieldOf(k)))
              /\ pc \in {"return", "done"} => NearestFeet(rows[k].comb[1], FlaggedValue(HstFieldOf(k)))
        /\ \A g \in 1..Min(6, Len(SwellFieldsOf(k))) :
              ThreeNumbers(SwellFieldsOf(k)[g]) =>
                  /\ Present(rows[k].sw[g])
                  /\ pc = "dayhour" => ExactFeet(rows[k].sw[g].hs[1], FlaggedValue(SwellFieldsOf(k)[g]))
                  /\ pc \in {"return", "done"} =>
                        NearestFeet(rows[k].sw[g].hs[1], FlaggedValue(SwellFieldsOf(k)[g]))

(***************************************************************************)
(* Properties of hourly_series_from_day_hour and of the direction of the   *)
(* older dialect.                                                          *)
(***************************************************************************)
\* the tuples that datetime.replace accepts in the cycle's month
Acceptable ==
    {j \in 1..Len(day_hour_tuples) :
        /\ day_hour_tuples[j][1] \in 1..DaysInMonth(YearOf(cycle_dt_utc), MonthOf(cycle_dt_utc))
        /\ day_hour_tuples[j][2] \in 0..23}

\* C28: hourly_series_from_day_hour skips the leading tuples whose day does not
\* exist in the cycle's month; from the first accepted tuple on no tuple is dropped
\* and the day and hour of the later tuples have no influence: result[i] is
\* result[0] plus i hours and the result has one entry per tuple from the first
\* accepted one on.
C28_AnchoredSeries ==
    (fn = "hourly_series" /\ cycle_is_utc) =>
        /\ \A i \in 1..Len(results) :
              /\ results[i].ts = results[1].ts + (i - 1) * 3600
              /\ results[i].src = First(Acceptable) + i - 1
        /\ \A j \in 1..Len(day_hour_tuples) :
              (j < idx /\ day_hour_tuples[j][1] > DaysInMonth(YearOf(cycle_dt_utc), MonthOf(cycle_dt_utc))
                 /\ \A m \in Acceptable : m > j) =>
                  \A i \in 1..Len(results) : results[i].src # j
        /\ pc = "done" =>
              Len(results) = IF Acceptable = {} THEN 0
                             ELSE Len(day_hour_tuples) - First(Acceptable) + 1

\* C28 witness: a series whose first tuple was skipped (day 31 in a 30-day month)
\* and whose last tuple, kept, names a day and hour that replace would reject.
C28_Witness ==
    /\ fn = "hourly_series" /\ cycle_is_utc /\ pc = "done"
    /\ Len(day_hour_tuples) >= 3
    /\ day_hour_tuples[1][1] = 31 /\ 1 \notin Acceptable
    /\ Len(day_hour_tuples) \notin Acceptable
    /\ Len(results) = Len(day_hour_tuples) - 1

\* int(float(token)) of the third number collected for group g of the k-th row
OffsetRawDirection(k, g) == TruncInt(TokensOf(k)[NumberPos(k, 3 * g)].v)

\* C29: in the HourOffset dialect the direction stored for a group is the third
\* number collected for the group, truncated to an integer, plus 180 modulo 360,
\* not the raw value.
C29_OffsetDirectionShift ==
    ReadsHourOffset => \A k \in 1..Len(rows) : \A g \in 1..Len(rows[k].sw) :
        Present(rows[k].sw[g]) =>
            rows[k].sw[g].dir = <<(OffsetRawDirection(k, g) + 180) % 360>>

\* C29 witness: a returned HourOffset row holds a group whose raw direction is 200,
\* stored as 20, collected across a token that is not a number.
C29_Witness ==
    /\ ReadsHourOffset /\ pc = "done"
    /\ \E k \in 1..Len(rows) : \E g \in 1..6 :
          /\ Present(rows[k].sw[g])
          /\ OffsetRawDirection(k, g) = 200
          /\ rows[k].sw[g].dir = <<20>>
          /\ \E i \in 7..NumberPos(k, 3 * g) : TokensOf(k)[i].k # "num"

(***************************************************************************)
(* get_latest_run (src/app.py 357-380) and the retrieval at the top of     *)
(* parse_bull (src/app.py 415-432).  The server's answer to a request is   *)
(* <<status_code>>, or <<>> when requests raises in place of answering.    *)
(* The cycle the downloaded text names is drawn with the text.             *)
(***************************************************************************)
OK == 200
DeltaDays == <<0, 1>>
RunHours == <<18, 12, 6, 0>>

\* Mutant of Candidates: the oldest run is probed first.
CandidatesOldestFirst ==
    [k \in 1..(Len(DeltaDays) * Len(RunHours)) |->
        [delta_day |-> DeltaDays[Len(DeltaDays) - ((k - 1) \div Len(RunHours))],
         hour |-> RunHours[Len(RunHours) - ((k - 1) % Len(RunHours))]]]

\* for delta_day in [0, 1]: for hour in run_hours: the probes in the order made
Candidates ==
    [k \in 1..(Len(DeltaDays) * Len(RunHours)) |->
        [delta_day |-> DeltaDays[((k - 1) \div Len(RunHours)) + 1],
         hour |-> RunHours[((k - 1) % Len(RunHours)) + 1]]]

\* strftime("%Y%m%d") as a number
Yyyymmdd(t) == YearOf(t) * 10000 + MonthOf(t) * 100 + DayOf(t)

\* yyyymmdd of check_date = now - timedelta(days=delta_day)
CheckDate(k) == Yyyymmdd(now - Candidates[k].delta_day * DAY)

\* the probe of candidate k with the answer it got, as logged
Probed(k) == [date |-> CheckDate(k), run |-> Candidates[k].hour, status |-> server.head[k]]

\* requests.head raises: the exception leaves get_latest_run and parse_bull
ProbeRaises ==
    /\ fn = "parse_bull"
    /\ pc = "probe"
    /\ probe <= Len(Candidates)
    /\ server.head[probe] = None
    /\ probes' = Append(probes, Probed(probe))
    /\ requests_sent' = requests_sent + 1
    /\ pc' = "raised"
    /\ UNCHANGED <<fn, cycle_dt_utc, cycle_is_utc, lines, day_hour_tuples, idx,
                   last_forecast_dt_utc, rows, results, error,
                   now, server, station_id, probe, latest, other, meta_vars, hourly_vars>>

\* resp.status_code is not 200: the next candidate
ProbeNext ==
    /\ fn = "parse_bull"
    /\ pc = "probe"
    /\ probe <= Len(Candidates)
    /\ server.head[probe] # None
    /\ server.head[probe][1] # OK
    /\ probes' = Append(probes, Probed(probe))
    /\ requests_sent' = requests_sent + 1
    /\ probe' = probe + 1
    /\ UNCHANGED <<fn, cycle_dt_utc, cycle_is_utc, lines, day_hour_tuples, pc, idx,
                   last_forecast_dt_utc, rows, results, error,
                   now, server, station_id, latest, other, meta_vars, hourly_vars>>

\* resp.status_code == 200: return yyyymmdd, run_str
ProbeFound ==
    /\ fn = "parse_bull"
    /\ pc = "probe"
    /\ probe <= Len(Candidates)
    /\ server.head[probe] = Some(OK)
    /\ probes' = Append(probes, Probed(probe))
    /\ requests_sent' = requests_sent + 1
    /\ latest' = [date |-> Some(CheckDate(probe)), run |-> Some(Candidates[probe].hour)]
    /\ pc' = "fetch"
    /\ UNCHANGED <<fn, cycle_dt_utc, cycle_is_utc, lines, day_hour_tuples, idx,
                   last_forecast_dt_utc, rows, results, error,
                   now, server, station_id, probe, other, meta_vars, hourly_vars>>

\* both loops end: return None, None
ProbeNone ==
    /\ fn = "parse_bull"
    /\ pc = "probe"
    /\ probe > Len(Candidates)
    /\ latest' = NoRun
    /\ pc' = "fetch"
    /\ UNCHANGED <<fn, cycle_dt_utc, cycle_is_utc, lines, day_hour_tuples, idx,
                   last_forecast_dt_utc, rows, results, error,
                   net_vars, station_id, probe, probes, other, meta_vars, hourly_vars>>

\* Mutant of NoRecentRun: the early return carries no message.
NoRecentRunSilent ==
    /\ pc = "fetch"
    /\ latest.date = None
    /\ pc' = "done"
    /\ UNCHANGED <<fn, cycle_dt_utc, cycle_is_utc, lines, day_hour_tuples, idx,
                   last_forecast_dt_utc, rows, results, error, elsewhere>>

\* if not date_str: return ..., None, 'UTC', "No recent run found."
NoRecentRun ==
    /\ pc = "fetch"
    /\ latest.date = None
    /\ error' = "No recent run found."
    /\ pc' = "done"
    /\ UNCHANGED <<fn, cycle_dt_utc, cycle_is_utc, lines, day_hour_tuples, idx,
                   last_forecast_dt_utc, rows, results, elsewhere>>

\* the answer to the GET of the station's bulletin of the run found
Bulletin == server.get[station_id]

\* requests.get raises (timeout=10): the exception leaves parse_bull
DownloadRaises ==
    /\ pc = "fetch"
    /\ latest.date # None
    /\ Bulletin.status = None
    /\ requests_sent' = requests_sent + 1
    /\ pc' = "raised"
    /\ UNCHANGED <<fn, cycle_dt_utc, cycle_is_utc, lines, day_hour_tuples, idx,
                   last_forecast_dt_utc, rows, results, error,
                   now, server, fetch_locals, other, meta_vars, hourly_vars>>

\* if resp.status_code != 200: return ..., None, 'UTC', f"No .bull file found for ..."
DownloadNotFound ==
    /\ pc = "fetch"
    /\ latest.date # None
    /\ Bulletin.status # None
    /\ Bulletin.status[1] # OK
    /\ requests_sent' = requests_sent + 1
    /\ error' = "No .bull file found for " \o station_id
    /\ pc' = "done"
    /\ UNCHANGED <<fn, cycle_dt_utc, cycle_is_utc, lines, day_hour_tuples, idx,
                   last_forecast_dt_utc, rows, results,
                   now, server, fetch_locals, other, meta_vars, hourly_vars>>

\* if not lines: return ..., None, 'UTC', "Downloaded .bull file is empty."
DownloadEmpty ==
    /\ pc = "fetch"
    /\ latest.date # None
    /\ Bulletin.status = Some(OK)
    /\ Bulletin.text = <<>>
    /\ requests_sent' = requests_sent + 1
    /\ error' = "Downloaded .bull file is empty."
    /\ pc' = "done"
    /\ UNCHANGED <<fn, cycle_dt_utc, cycle_is_utc, lines, day_hour_tuples, idx,
                   last_forecast_dt_utc, rows, results,
                   now, server, fetch_locals, other, meta_vars, hourly_vars>>

\* lines = resp.text.splitlines(), and on to the format detection
DownloadOk ==
    /\ pc = "fetch"
    /\ latest.date # None
    /\ Bulletin.status = Some(OK)
    /\ Bulletin.text # <<>>
    /\ requests_sent' = requests_sent + 1
    /\ lines' = Bulletin.text
    /\ pc' = "detect"
    /\ UNCHANGED <<fn, cycle_dt_utc, cycle_is_utc, day_hour_tuples, idx,
                   last_forecast_dt_utc, rows, results, error,
                   now, server, fetch_locals, other, meta_vars, hourly_vars>>

FetchNext ==
    \/ ProbeRaises
    \/ ProbeNext
    \/ ProbeFound
    \/ ProbeNone
    \/ NoRecentRun
    \/ DownloadRaises
    \/ DownloadNotFound
    \/ DownloadEmpty
    \/ DownloadOk

(***************************************************************************)
(* Inputs of the retrieval: the clock on the first of a month after a leap *)
(* February and in mid-year; every pattern of 200 and 404 answers to the   *)
(* eight probes and some with other codes or with no answer; bulletins of  *)
(* both dialects, without header, without rows, empty and not found.       *)
(***************************************************************************)
Nows == {MkDt(2024, 3, 1, 5) + 59, MkDt(2025, 8, 7, 13)}

HeadAnswers ==
    {[k \in 1..Len(Candidates) |-> IF k \in S THEN <<200>> ELSE <<404>>] : S \in SUBSET (1..Len(Candidates))}
    \cup {<<<<503>>, <<301>>, <<404>>, <<500>>, <<403>>, <<200>>, <<404>>, <<200>>>>,
          <<<<404>>, <<204>>, None, <<200>>, <<200>>, <<200>>, <<200>>, <<200>>>>,
          <<<<503>>, <<503>>, <<503>>, <<503>>, <<301>>, <<302>>, <<404>>, <<500>>>>}

FetchTexts ==
    {<<>>,
     <<TextLine>>,
     <<HrLine, TextLine>>,
     <<HrLine, TextLine, FullOffsetLine(IntTok(0)), FullOffsetLine(IntTok(1))>>,
     <<TextLine, MarkerLine, UnitLine, RowLine(31, 12, HstField, <<ValidField>>),
       RowLine(1, 0, HstField, <<ValidField>>), RowLine(1, 1, HstField, <<ValidField>>)>>,
     <<MarkerLine, RowLine(1, 0, HstField, <<ValidField>>), NoHstLine>>,
     <<MarkerLine, RowLine(0, 0, HstField, <<ValidField>>)>>}

BulletinAnswers ==
    {[status |-> None, text |-> <<>>], [status |-> <<404>>, text |-> <<>>],
     [status |-> <<503>>, text |-> <<TextLine>>]}
    \cup {[status |-> <<200>>, text |-> t] : t \in FetchTexts}

InitFetch ==
    /\ NotLoading
    /\ NotBuilding
    /\ fn = "parse_bull"
    /\ pc = "probe"
    /\ now \in Nows
    /\ server \in {[head |-> h, get |-> [s \in {"51201"} |-> b]] : h \in HeadAnswers, b \in BulletinAnswers}
    /\ requests_sent = 0
    /\ station_id = "51201"
    /\ probe = 1
    /\ probes = <<>>
    /\ latest = NoRun
    /\ other = None
    /\ cycle_dt_utc = MkDt(2024, 2, 29, 6)
    /\ cycle_is_utc = TRUE
    /\ lines = <<>>
    /\ day_hour_tuples = <<>>
    /\ idx = 0
    /\ last_forecast_dt_utc = None
    /\ rows = <<>>
    /\ results = <<>>
    /\ error = ""

FetchAndParse == FetchNext \/ ParseNext

SpecFetch == InitFetch /\ [][FetchAndParse]_vars

(***************************************************************************)
(* Properties of the retrieval.                                            *)
(***************************************************************************)
\* the run hours in the order of the claim: today's, then yesterday's
NewestFirst == <<18, 12, 6, 0, 18, 12, 6, 0>>

\* the date of the k-th candidate: today for the first four, else the day before
DateOfCandidate(k) == IF k <= 4 THEN Yyyymmdd(now) ELSE Yyyymmdd(now - 86400)

Answered200(k) == probes[k].status = <<200>>

\* get_latest_run has returned: a probe was answered and the loop was left
LatestRunReturned ==
    /\ pc # "probe"
    /\ probes # <<>>
    /\ probes[Len(probes)].status # None

\* C24: get_latest_run probes today's 18z, 12z, 06z and 00z runs and then yesterday's
\* in that order; after an answer other than 200 it goes on to the next candidate; it
\* returns the first candidate answered with 200, so that every candidate probed
\* before it was answered otherwise; and it returns (None, None) exactly when all
\* eight candidates were answered with something other than 200.
C24_NewestFirst ==
    /\ Len(probes) <= 8
    /\ \A k \in 1..Len(probes) :
          /\ probes[k].run = NewestFirst[k]
          /\ probes[k].date = DateOfCandidate(k)
    /\ \A k \in 1..(Len(probes) - 1) : probes[k].status # None /\ ~Answered200(k)
    /\ (pc = "probe" /\ probes # <<>>) =>
          /\ ~Answered200(Len(probes))
          /\ probe = Len(probes) + 1
    /\ LatestRunReturned =>
          /\ Answered200(Len(probes)) =>
                latest = [date |-> <<probes[Len(probes)].date>>, run |-> <<probes[Len(probes)].run>>]
          /\ latest = [date |-> <<>>, run |-> <<>>] <=>
                (Len(probes) = 8 /\ \A k \in 1..8 : ~Answered200(k))

\* C24 witness: on the first of March of a leap year, get_latest_run has returned the
\* 12z run of the 29th of February after five answers other than 200, not all 404.
C24_Witness ==
    /\ LatestRunReturned
    /\ Len(probes) = 6
    /\ latest = [date |-> <<20240229>>, run |-> <<12>>]
    /\ \E k \in 1..5 : probes[k].status \notin {<<404>>, <<200>>}

\* the five early and late error exits the claim names
NoRunFound == LatestRunReturned /\ \A k \in 1..Len(probes) : ~Answered200(k)
DownloadRefused ==
    /\ LatestRunReturned /\ ~NoRunFound
    /\ server.get[station_id].status \notin {<<>>, <<200>>}
DownloadedNothing ==
    /\ LatestRunReturned /\ ~NoRunFound
    /\ server.get[station_id] = [status |-> <<200>>, text |-> <<>>]
HeaderMissing ==
    /\ lines # <<>>
    /\ \A j \in 1..Min(10, Len(lines)) : ~SaysDayAmp(lines[j].marker)
    /\ \A j \in 1..Len(lines) : ~BeginsHr(j)

\* C26: when parse_bull returns, either rows is a non-empty list and error is None,
\* or rows is None and error is a non-empty message; the second holds when no recent
\* run was found, when the download was answered with a code other than 200, when
\* the downloaded text is empty, when the header is missing and when no row was read.
C26_ResultShape ==
    (fn = "parse_bull" /\ pc = "done") =>
        /\ \/ /\ error = ""
              /\ ReturnedRows # <<>>
              /\ Len(ReturnedRows[1]) >= 1
           \/ /\ error # ""
              /\ ReturnedRows = <<>>
        /\ (NoRunFound \/ DownloadRefused \/ DownloadedNothing \/ HeaderMissing \/ rows = <<>>) =>
              (error # "" /\ ReturnedRows = <<>>)

\* C26 witness: parse_bull has returned the message of a refused download, after
\* get_latest_run found yesterday's run.
C26_Witness ==
    /\ fn = "parse_bull" /\ pc = "done"
    /\ DownloadRefused
    /\ Len(probes) > 4
    /\ error = "No .bull file found for 51201"
    /\ ReturnedRows = <<>>

(***************************************************************************)
(* Two invocations of parse_bull in the threads of two requests            *)
(* (src/app.py 1337-1354).  The variables hold the locals of the running   *)
(* invocation and other holds those of the suspended one; the module-level *)
(* names, the clock and the server are the same for both.                  *)
(***************************************************************************)
\* the locals of the running invocation
Frame ==
    [station_id |-> station_id, cycle_dt_utc |-> cycle_dt_utc, cycle_is_utc |-> cycle_is_utc,
     lines |-> lines, pc |-> pc, idx |-> idx, last_forecast_dt_utc |-> last_forecast_dt_utc,
     rows |-> rows, error |-> error, probe |-> probe, probes |-> probes, latest |-> latest]

\* Mutant of Switch: rows is one list that both invocations append to.
SwitchSharingRows ==
    /\ fn = "parse_bull"
    /\ other # None
    /\ other' = Some(Frame)
    /\ station_id' = other[1].station_id
    /\ cycle_dt_utc' = other[1].cycle_dt_utc
    /\ cycle_is_utc' = other[1].cycle_is_utc
    /\ lines' = other[1].lines
    /\ pc' = other[1].pc
    /\ idx' = other[1].idx
    /\ last_forecast_dt_utc' = other[1].last_forecast_dt_utc
    /\ error' = other[1].error
    /\ probe' = other[1].probe
    /\ probes' = other[1].probes
    /\ latest' = other[1].latest
    /\ UNCHANGED <<fn, rows, day_hour_tuples, results, net_vars, meta_vars, hourly_vars>>

\* the running thread is suspended and the other one resumed
Switch ==
    /\ fn = "parse_bull"
    /\ other # None
    /\ other' = Some(Frame)
    /\ station_id' = other[1].station_id
    /\ cycle_dt_utc' = other[1].cycle_dt_utc
    /\ cycle_is_utc' = other[1].cycle_is_utc
    /\ lines' = other[1].lines
    /\ pc' = other[1].pc
    /\ idx' = other[1].idx
    /\ last_forecast_dt_utc' = other[1].last_forecast_dt_utc
    /\ rows' = other[1].rows
    /\ error' = other[1].error
    /\ probe' = other[1].probe
    /\ probes' = other[1].probes
    /\ latest' = other[1].latest
    /\ UNCHANGED <<fn, day_hour_tuples, results, net_vars, meta_vars, hourly_vars>>

\* Inputs: the probes find today's 18z run, or yesterday's 18z run, or no run, or
\* the second probe gets no answer; each station's bulletin is one of seven answers.
ParHeads ==
    {[k \in 1..Len(Candidates) |-> <<200>>],
     [k \in 1..Len(Candidates) |-> IF k = 5 THEN <<200>> ELSE <<404>>],
     [k \in 1..Len(Candidates) |-> <<404>>],
     [k \in 1..Len(Candidates) |-> IF k = 2 THEN None ELSE <<503>>]}

ParAnswers ==
    {[status |-> None, text |-> <<>>],
     [status |-> <<404>>, text |-> <<>>],
     [status |-> <<200>>, text |-> <<>>],
     [status |-> <<200>>, text |-> <<TextLine>>],
     [status |-> <<200>>, text |-> <<HrLine, TextLine, FullOffsetLine(IntTok(0))>>],
     [status |-> <<200>>, text |-> <<MarkerLine, UnitLine, RowLine(0, 0, HstField, <<ValidField>>),
                                     RowLine(31, 12, HstField, <<ValidField>>),
                                     RowLine(1, 0, HstField, <<ValidField>>)>>],
     [status |-> <<200>>, text |-> <<MarkerLine, RowLine(1, 0, HstField, <<ValidField>>), NoHstLine>>]}

\* an invocation before its first statement
Called(station, cycle) ==
    [station_id |-> station, cycle_dt_utc |-> cycle, cycle_is_utc |-> TRUE,
     lines |-> <<>>, pc |-> "probe", idx |-> 0, last_forecast_dt_utc |-> None,
     rows |-> <<>>, error |-> "", probe |-> 1, probes |-> <<>>, latest |-> NoRun]

InitPar ==
    /\ NotLoading
    /\ NotBuilding
    /\ fn = "parse_bull"
    /\ now = MkDt(2025, 8, 7, 13)
    /\ server \in {[head |-> h, get |-> [s \in {"51201", "51202"} |-> IF s = "51201" THEN a ELSE b]] :
                      h \in ParHeads, a \in ParAnswers, b \in ParAnswers}
    /\ requests_sent = 0
    /\ other = Some(Called("51202", MkDt(2025, 8, 31, 12)))
    /\ station_id = "51201"
    /\ cycle_dt_utc = MkDt(2024, 2, 29, 6)
    /\ cycle_is_utc = TRUE
    /\ lines = <<>>
    /\ pc = "probe"
    /\ idx = 0
    /\ last_forecast_dt_utc = None
    /\ rows = <<>>
    /\ error = ""
    /\ probe = 1
    /\ probes = <<>>
    /\ latest = NoRun
    /\ day_hour_tuples = <<>>
    /\ results = <<>>

Interleaved == Switch \/ FetchNext \/ ParseNext

SpecPar == InitPar /\ [][Interleaved]_vars

(***************************************************************************)
(* Independence of the invocations: what one invocation returns when it    *)
(* runs alone is computed from the server's answers and the text by a fold *)
(* over the lines, and compared with what the interleaved runs return.     *)
(***************************************************************************)
\* how an invocation ended: returned or raised, with the rows and the message
OutcomeOf(f) ==
    [end |-> f.pc,
     rows |-> IF f.pc = "done" /\ f.error = "" THEN <<f.rows>> ELSE <<>>,
     error |-> f.error]

Raises == [end |-> "raised", rows |-> <<>>, error |-> ""]
Fails(msg) == [end |-> "done", rows |-> <<>>, error |-> msg]

RECURSIVE DayHourAlone(_, _, _, _, _)
DayHourAlone(ls, cycle, j, last, acc) ==
    IF j > Len(ls) THEN [raised |-> FALSE, rows |-> acc]
    ELSE IF ~IsDataLine(ls[j]) THEN DayHourAlone(ls, cycle, j + 1, last, acc)
    ELSE IF Len(ls[j].fields) < 2 THEN [raised |-> TRUE, rows |-> acc]
    ELSE IF last # <<>>
         THEN DayHourAlone(ls, cycle, j + 1, <<last[1] + 3600>>,
                           Append(acc, DayHourRow(j, last[1] + 3600, ls[j].fields)))
    ELSE IF ReplaceOk(cycle, DayVal(ls[j]), HourVal(ls[j]))
         THEN DayHourAlone(ls, cycle, j + 1, <<AnchorOf(cycle, DayVal(ls[j]), HourVal(ls[j]))>>,
                           Append(acc, DayHourRow(j, AnchorOf(cycle, DayVal(ls[j]), HourVal(ls[j])),
                                                  ls[j].fields)))
    ELSE DayHourAlone(ls, cycle, j + 1, last, acc)

RECURSIVE OffsetAlone(_, _, _, _)
OffsetAlone(ls, cycle, j, acc) ==
    IF j > Len(ls) THEN [raised |-> FALSE, rows |-> acc]
    ELSE IF HourOffsetAccepts(ls[j])
         THEN OffsetAlone(ls, cycle, j + 1, Append(acc, HourOffsetRow(j, cycle, WsTokens(ls[j]))))
    ELSE OffsetAlone(ls, cycle, j + 1, acc)

Finished(r) ==
    IF r.raised THEN Raises
    ELSE IF r.rows = <<>> THEN Fails("No data rows parsed from .bull file.")
    ELSE [end |-> "done", rows |-> <<[k \in 1..Len(r.rows) |-> RoundRow(r.rows[k])]>>, error |-> ""]

ParsedAlone(ls, cycle) ==
    IF \E j \in 1..Min(10, Len(ls)) : SaysDayAmp(ls[j].marker)
    THEN Finished(DayHourAlone(ls, cycle, 1, <<>>, <<>>))
    ELSE IF HasHeader(ls) THEN Finished(OffsetAlone(ls, cycle, HeaderIdx(ls) + 1, <<>>))
    ELSE Fails("Data section not found in .bull file.")

Found == {k \in 1..8 : server.head[k] = <<200>>}
Unanswered == {k \in 1..8 : server.head[k] = <<>>}

\* the outcome of parse_bull(station) when no other invocation runs
Alone(station, cycle) ==
    IF Unanswered # {} /\ \A k \in Found : First(Unanswered) < k THEN Raises
    ELSE IF Found = {} THEN Fails("No recent run found.")
    ELSE IF server.get[station].status = <<>> THEN Raises
    ELSE IF server.get[station].status # <<200>> THEN Fails("No .bull file found for " \o station)
    ELSE IF server.get[station].text = <<>> THEN Fails("Downloaded .bull file is empty.")
    ELSE ParsedAlone(server.get[station].text, cycle)

Ended(f) == f.pc \in {"done", "raised"}

\* each invocation that has ended, ended as it would have alone
SameAsAlone ==
    (fn = "parse_bull" /\ other # <<>>) =>
        /\ Ended(Frame) => OutcomeOf(Frame) = Alone(station_id, cycle_dt_utc)
        /\ Ended(other[1]) => OutcomeOf(other[1]) = Alone(other[1].station_id, other[1].cycle_dt_utc)

\* C25 as stated: interleaved invocations end as each would alone, and the parser
\* itself sends no request to the network.
C25_Original ==
    /\ SameAsAlone
    /\ (fn = "parse_bull" /\ other # <<>>) => requests_sent = 0

\* C25 amended: interleaved invocations of parse_bull end, each for its own station,
\* as they would alone against the same server; parse_bull does itself access the
\* network: an invocation that has ended has probed for the latest run, and one
\* that returned rows has also downloaded its bulletin.
C25_IndependentInvocations ==
    /\ SameAsAlone
    /\ (fn = "parse_bull" /\ other # <<>>) =>
          /\ Ended(Frame) => Len(probes) >= 1
          /\ Ended(other[1]) => Len(other[1].probes) >= 1
          /\ (Ended(Frame) /\ Ended(other[1])) => requests_sent = Len(probes) + Len(other[1].probes)
                + (IF Frame.latest.date # <<>> THEN 1 ELSE 0)
                + (IF other[1].latest.date # <<>> THEN 1 ELSE 0)

\* C25 witness: one invocation has returned the rows of its DayHour bulletin while
\* the other, suspended in the middle of its row loop, holds a row of its own.
C25_Witness ==
    /\ fn = "parse_bull" /\ other # <<>>
    /\ pc = "done" /\ error = "" /\ Len(rows) >= 2
    /\ other[1].pc \in {"dayhour", "houroffset"}
    /\ other[1].idx <= Len(other[1].lines)
    /\ Len(other[1].rows) >= 1
    /\ other[1].station_id # station_id

(***************************************************************************)
(* load_station_metadata (src/app.py 252-314), called from the threads of  *)
(* the requests that list the stations (src/app.py 152, 205).  A           *)
(* dictionary of stations is modelled by the set of its keys.  callers[p]  *)
(* holds the position of caller p, its local meta, what it returned and    *)
(* whether some call had returned when it was made.                        *)
(***************************************************************************)
MaxCallers == 4

DEFAULT_STATIONS == {"51201", "51202", "51203"}

\* what parsing res.text may give: the station table as served at two times
StationTables == {{"51201", "46042"}, {"51201", "46042", "46011"}}

\* parse_bull, hourly_series_from_day_hour and build_hourly_rows are not called
NotParsing ==
    /\ cycle_dt_utc = 0
    /\ cycle_is_utc = TRUE
    /\ lines = <<>>
    /\ day_hour_tuples = <<>>
    /\ idx = 0
    /\ last_forecast_dt_utc = None
    /\ rows = <<>>
    /\ results = <<>>
    /\ error = ""

NotCalled == [pc |-> "idle", meta |-> {}, ret |-> None, late |-> FALSE]

\* a thread calls load_station_metadata()
MetaCall ==
    /\ fn = "load_station_metadata"
    /\ \E p \in 1..Len(callers) :
          /\ callers[p].pc = "idle"
          /\ callers' = [callers EXCEPT ![p].pc = "check",
                                        ![p].late = \E q \in 1..Len(callers) : callers[q].pc = "done"]
    /\ UNCHANGED <<fn, cycle_dt_utc, cycle_is_utc, lines, day_hour_tuples, pc, idx,
                   last_forecast_dt_utc, rows, results, error,
                   net_vars, fetch_locals, other, STATION_META, downloads, hourly_vars>>

\* if STATION_META is not None: return STATION_META
MetaCached ==
    /\ fn = "load_station_metadata"
    /\ \E p \in 1..Len(callers) :
          /\ callers[p].pc = "check"
          /\ STATION_META # None
          /\ callers' = [callers EXCEPT ![p].pc = "done", ![p].ret = STATION_META]
    /\ UNCHANGED <<fn, cycle_dt_utc, cycle_is_utc, lines, day_hour_tuples, pc, idx,
                   last_forecast_dt_utc, rows, results, error,
                   net_vars, fetch_locals, other, STATION_META, downloads, hourly_vars>>

\* STATION_META is None: station_url = ..., meta = {}
MetaMiss ==
    /\ fn = "load_station_metadata"
    /\ \E p \in 1..Len(callers) :
          /\ callers[p].pc = "check"
          /\ STATION_META = None
          /\ callers' = [callers EXCEPT ![p].pc = "get", ![p].meta = {}]
    /\ UNCHANGED <<fn, cycle_dt_utc, cycle_is_utc, lines, day_hour_tuples, pc, idx,
                   last_forecast_dt_utc, rows, results, error,
                   net_vars, fetch_locals, other, STATION_META, downloads, hourly_vars>>

\* res = requests.get(station_url, timeout=30) answers; the lines are parsed into meta
MetaDownloaded ==
    /\ fn = "load_station_metadata"
    /\ \E p \in 1..Len(callers) : \E table \in StationTables :
          /\ callers[p].pc = "get"
          /\ callers' = [callers EXCEPT ![p].pc = "store", ![p].meta = table]
    /\ downloads' = downloads + 1
    /\ UNCHANGED <<fn, cycle_dt_utc, cycle_is_utc, lines, day_hour_tuples, pc, idx,
                   last_forecast_dt_utc, rows, results, error,
                   net_vars, fetch_locals, other, STATION_META, hourly_vars>>

\* requests.get or raise_for_status raises
MetaDownloadFails ==
    /\ fn = "load_station_metadata"
    /\ \E p \in 1..Len(callers) :
          /\ callers[p].pc = "get"
          /\ callers' = [callers EXCEPT ![p].pc = "except"]
    /\ downloads' = downloads + 1
    /\ UNCHANGED <<fn, cycle_dt_utc, cycle_is_utc, lines, day_hour_tuples, pc, idx,
                   last_forecast_dt_utc, rows, results, error,
                   net_vars, fetch_locals, other, STATION_META, hourly_vars>>

\* STATION_META = meta; return STATION_META
MetaStore ==
    /\ fn = "load_station_metadata"
    /\ \E p \in 1..Len(callers) :
          /\ callers[p].pc = "store"
          /\ STATION_META' = Some(callers[p].meta)
          /\ callers' = [callers EXCEPT ![p].pc = "done", ![p].ret = Some(callers[p].meta)]
    /\ UNCHANGED <<fn, cycle_dt_utc, cycle_is_utc, lines, day_hour_tuples, pc, idx,
                   last_forecast_dt_utc, rows, results, error,
                   net_vars, fetch_locals, other, downloads, hourly_vars>>

\* except Exception: STATION_META = DEFAULT_STATIONS.copy(); return STATION_META
MetaFallback ==
    /\ fn = "load_station_metadata"
    /\ \E p \in 1..Len(callers) :
          /\ callers[p].pc = "except"
          /\ STATION_META' = Some(DEFAULT_STATIONS)
          /\ callers' = [callers EXCEPT ![p].pc = "done", ![p].ret = Some(DEFAULT_STATIONS)]
    /\ UNCHANGED <<fn, cycle_dt_utc, cycle_is_utc, lines, day_hour_tuples, pc, idx,
                   last_forecast_dt_utc, rows, results, error,
                   net_vars, fetch_locals, other, downloads, hourly_vars>>

InitMeta ==
    /\ NotFetching
    /\ NotBuilding
    /\ NotParsing
    /\ fn = "load_station_metadata"
    /\ pc = "serving"
    /\ STATION_META = None
    /\ callers = [p \in 1..MaxCallers |-> NotCalled]
    /\ downloads = 0

MetaNext ==
    \/ MetaCall
    \/ MetaCached
    \/ MetaMiss
    \/ MetaDownloaded
    \/ MetaDownloadFails
    \/ MetaStore
    \/ MetaFallback

SpecMeta == InitMeta /\ [][MetaNext]_vars

\* the calls made after some call had returned, and returned themselves
LateCalls == {p \in 1..Len(callers) : callers[p].late /\ callers[p].pc = "done"}

LateCallsAgree == \A p \in LateCalls : \A q \in LateCalls : callers[p].ret = callers[q].ret

\* C27: over any interleaving of calls of load_station_metadata at most one request
\* for the station table is sent, also when the first download fails and the
\* fallback is cached, and all calls made after the first call returned return the
\* same dictionary.
C27_DownloadsOnce ==
    fn = "load_station_metadata" =>
        /\ downloads <= 1
        /\ LateCallsAgree

(***************************************************************************)
(* build_hourly_rows (src/waveapp_v2/waveweb/app.py 125-151).  A timezone  *)
(* is its standard offset, the offset in force before its first            *)
(* transition and its transitions <<UTC instant, offset from then on>>; an *)
(* aware datetime is its wall clock and the offset of its tzinfo, both in  *)
(* seconds.  localize and normalize are pytz's: normalize recomputes the   *)
(* offset from the instant, adding a timedelta keeps the offset.           *)
(***************************************************************************)
MinHours == 1
MaxHours == 2000
LastHour == 23

\* the offset in force at a UTC instant
RECURSIVE OffsetFrom(_, _, _)
OffsetFrom(tz, k, instant) ==
    IF k = 0 THEN tz.first
    ELSE IF tz.transitions[k][1] <= instant THEN tz.transitions[k][2]
    ELSE OffsetFrom(tz, k - 1, instant)

OffsetAt(tz, instant) == OffsetFrom(tz, Len(tz.transitions), instant)

\* tz.normalize(dt): the same instant under the offset in force at it
Normalize(tz, dt) ==
    [wall |-> (dt.wall - dt.off) + OffsetAt(tz, dt.wall - dt.off),
     off |-> OffsetAt(tz, dt.wall - dt.off)]

\* localize's candidates: the offsets in force a day before and a day after the
\* wall clock under which normalize keeps the wall clock
Possible(tz, wall) ==
    {o \in {OffsetAt(tz, wall - DAY), OffsetAt(tz, wall + DAY)} : OffsetAt(tz, wall - o) = o}

\* tz.localize(naive, is_dst=False): the only candidate; in a gap the offset found
\* six hours earlier; of two candidates the standard one
RECURSIVE Localize(_, _)
Localize(tz, wall) ==
    IF Cardinality(Possible(tz, wall)) = 1
    THEN [wall |-> wall, off |-> CHOOSE o \in Possible(tz, wall) : TRUE]
    ELSE IF Possible(tz, wall) = {}
    THEN [wall |-> wall, off |-> Localize(tz, wall - 6 * HOUR).off]
    ELSE [wall |-> wall, off |-> tz.std]

\* Mutant of PlusHour: the wall clock is advanced and localized again.
PlusHourOnWall(dt) == Localize(args.tz, dt.wall + HOUR)

\* cur + timedelta(hours=1)
PlusHour(dt) == [wall |-> dt.wall + HOUR, off |-> dt.off]

\* if hours < 1 or hours > 2000: abort(400, ...)
HoursAbort ==
    /\ fn = "build_hourly_rows"
    /\ pc = "call"
    /\ args.hours < MinHours \/ args.hours > MaxHours
    /\ pc' = "abort400"
    /\ error' = "hours must be between 1 and 2000"
    /\ UNCHANGED <<fn, cycle_dt_utc, cycle_is_utc, lines, day_hour_tuples, idx,
                   last_forecast_dt_utc, rows, results,
                   net_vars, fetch_locals, other, meta_vars, hourly_vars>>

\* if not (0 <= start_hour <= 23): abort(400, ...)
StartHourAbort ==
    /\ fn = "build_hourly_rows"
    /\ pc = "call"
    /\ ~(args.hours < MinHours \/ args.hours > MaxHours)
    /\ ~(0 <= args.start_hour /\ args.start_hour <= LastHour)
    /\ pc' = "abort400"
    /\ error' = "start_hour must be 0..23"
    /\ UNCHANGED <<fn, cycle_dt_utc, cycle_is_utc, lines, day_hour_tuples, idx,
                   last_forecast_dt_utc, rows, results,
                   net_vars, fetch_locals, other, meta_vars, hourly_vars>>

\* cur = tz.localize(datetime(y, m, d, start_hour, 0, 0)); rows = []
HourlyStart ==
    /\ fn = "build_hourly_rows"
    /\ pc = "call"
    /\ ~(args.hours < MinHours \/ args.hours > MaxHours)
    /\ 0 <= args.start_hour /\ args.start_hour <= LastHour
    /\ cur' = Localize(args.tz, args.start_day + args.start_hour * HOUR)
    /\ hourly_rows' = <<>>
    /\ row_i' = 0
    /\ pc' = "hours"
    /\ UNCHANGED <<fn, cycle_dt_utc, cycle_is_utc, lines, day_hour_tuples, idx,
                   last_forecast_dt_utc, rows, results, error,
                   net_vars, fetch_locals, other, meta_vars, args>>

\* one pass of for i in range(hours)
HourlyRowAppended ==
    /\ fn = "build_hourly_rows"
    /\ pc = "hours"
    /\ row_i < args.hours
    /\ hourly_rows' = Append(hourly_rows,
          [i |-> row_i,
           local |-> Normalize(args.tz, cur).wall,
           utc |-> Normalize(args.tz, cur).wall - Normalize(args.tz, cur).off,
           utc_offset_min |-> Normalize(args.tz, cur).off \div 60])
    /\ cur' = PlusHour(Normalize(args.tz, cur))
    /\ row_i' = row_i + 1
    /\ UNCHANGED <<fn, cycle_dt_utc, cycle_is_utc, lines, day_hour_tuples, pc, idx,
                   last_forecast_dt_utc, rows, results, error,
                   net_vars, fetch_locals, other, meta_vars, args>>

\* return rows
HourlyReturn ==
    /\ fn = "build_hourly_rows"
    /\ pc = "hours"
    /\ row_i >= args.hours
    /\ pc' = "done"
    /\ UNCHANGED <<fn, cycle_dt_utc, cycle_is_utc, lines, day_hour_tuples, idx,
                   last_forecast_dt_utc, rows, results, error,
                   net_vars, fetch_locals, other, meta_vars, hourly_vars>>

(***************************************************************************)
(* Inputs: UTC, America/New_York and Australia/Lord_Howe (a half-hour DST  *)
(* step) with their transitions of 2024; start days on and before the      *)
(* transitions and in mid-year; start hours in the gap and in the repeated *)
(* hour; hour counts around both limits.                                   *)
(***************************************************************************)
Utc == [std |-> 0, first |-> 0, transitions |-> <<>>]

NewYork ==
    [std |-> -18000, first |-> -18000,
     transitions |-> <<<<MkDt(2024, 3, 10, 7), -14400>>, <<MkDt(2024, 11, 3, 6), -18000>>>>]

LordHowe ==
    [std |-> 37800, first |-> 39600,
     transitions |-> <<<<MkDt(2024, 4, 6, 15), 37800>>, <<MkDt(2024, 10, 5, 15) + 1800, 39600>>>>]

StartDays ==
    {MkDt(2024, 3, 9, 0), MkDt(2024, 3, 10, 0), MkDt(2024, 11, 3, 0), MkDt(2024, 4, 7, 0),
     MkDt(2024, 10, 6, 0), MkDt(2024, 6, 15, 0)}

HourlyArgs ==
    {[start_day |-> d, start_hour |-> h, hours |-> n, tz |-> z] :
        d \in StartDays, h \in {-1, 0, 1, 2, 23, 24}, n \in {-1, 0, 1, 2, 30, 2001},
        z \in {Utc, NewYork, LordHowe}}
    \cup {[start_day |-> MkDt(2024, 3, 9, 0), start_hour |-> 23, hours |-> 2000, tz |-> NewYork],
          [start_day |-> MkDt(2024, 10, 6, 0), start_hour |-> 24, hours |-> 2000, tz |-> LordHowe]}

InitHourly ==
    /\ NotFetching
    /\ NotLoading
    /\ NotParsing
    /\ fn = "build_hourly_rows"
    /\ pc = "call"
    /\ args \in HourlyArgs
    /\ cur = <<>>
    /\ row_i = 0
    /\ hourly_rows = <<>>

HourlyNext ==
    \/ HoursAbort
    \/ StartHourAbort
    \/ HourlyStart
    \/ HourlyRowAppended
    \/ HourlyReturn

SpecHourly == InitHourly /\ [][HourlyNext]_vars

\* the arguments are in the ranges the claim gives
InRange ==
    /\ 1 <= args.hours /\ args.hours <= 2000
    /\ 0 <= args.start_hour /\ args.start_hour <= 23

\* C30: for 1 <= hours <= 2000 and 0 <= start_hour <= 23 build_hourly_rows returns
\* exactly `hours` rows, numbered 0 .. hours-1 in order, and the UTC instants of
\* consecutive rows are one hour apart in every timezone, across DST transitions
\* too; outside those ranges it aborts with a 400 error and returns no rows.
C30_HourlyRows ==
    fn = "build_hourly_rows" =>
        /\ \A k \in 1..Len(hourly_rows) : hourly_rows[k].i = k - 1
        /\ \A k \in 1..(Len(hourly_rows) - 1) : hourly_rows[k + 1].utc - hourly_rows[k].utc = 3600
        /\ Len(hourly_rows) <= args.hours \/ hourly_rows = <<>>
        /\ pc = "done" => (InRange /\ Len(hourly_rows) = args.hours)
        /\ pc = "abort400" => (~InRange /\ hourly_rows = <<>>)
        /\ InRange => pc \in {"call", "hours", "done"}
        /\ ~InRange => (pc \in {"call", "abort400"} /\ hourly_rows = <<>>)

\* C30 witness: thirty rows have been returned for America/New_York from the hour
\* that the spring transition skips, their offsets changing on the way.
C30_Witness ==
    /\ fn = "build_hourly_rows" /\ pc = "done"
    /\ args.start_hour = 2 /\ args.start_day = MkDt(2024, 3, 10, 0)
    /\ Len(hourly_rows) = 30
    /\ hourly_rows[1].utc_offset_min = -240
    /\ hourly_rows[1].local = MkDt(2024, 3, 10, 3)
    /\ hourly_rows[30].i = 29

====
